---- MODULE Spec2Model ----
(***************************************************************************)
(* Destination aggregation service (neexbeast/ygo-test).                   *)
(*                                                                         *)
(* The model covers the aggregation-and-consistency core:                  *)
(*   - Fetcher.FetchAll, the errgroup fan-out over the four API clients;   *)
(*   - cache.Cache (Redis: key, Get, Set with TTL, Delete);                *)
(*   - storage.Repository (GetDestination, UpsertDestination);             *)
(*   - api.Handlers (GetDestination, RefreshDestination);                  *)
(*   - api.NewRouter, BearerAuth and HealthHandlerFunc.                    *)
(*                                                                         *)
(* Spec      : requests served one after another, each handler one step.   *)
(* SpecFetch : one refresh request at goroutine granularity.               *)
(* SpecFetchFair : SpecFetch under fair scheduling of the goroutines.      *)
(* SpecRace  : two requests, reads or refreshes, served concurrently, call  *)
(*             by call.                                                    *)
(* SpecCache : the operations of cache.Cache applied one after another.    *)
(* SpecHttp  : requests through the router: rate limiter, health route,    *)
(*             BearerAuth in front of the destination routes.              *)
(***************************************************************************)
EXTENDS Integers, Sequences, FiniteSets, TLC

VARIABLES
    store,         \* the destinations table: a set of rows
    cache,         \* Redis: a function from the keys that exist to entries
    now,           \* the clock, in half hours
    nextId,        \* the next value of the SERIAL sequence of destinations.id
    last,          \* the last request served and its response (SpecCache: the
                   \* last cache operation, its arguments and what it returned)
    fresh,         \* per cache key, the last successful refresh of a city with that key
    pc,            \* SpecFetch: where the refresh request is
    task,          \* SpecFetch: state of each of the four goroutines
    slot,          \* SpecFetch: weatherData, poiData, countryData, qualityScores
    outcome,       \* SpecFetch: how each client's Fetch ended
    gErr,          \* SpecFetch: the errgroup's first error ("" when none)
    gCtx,          \* SpecFetch: TRUE once the group context is cancelled
    ctx,           \* SpecFetch: TRUE once the caller's context is cancelled
    cut,           \* SpecFetch: the goroutines not yet finished when the caller cancelled
    req,           \* SpecFetch: the inputs of the request
    arg,           \* SpecFetch: what each client's Fetch was called with
    faults,        \* SpecFetch: the store and cache calls of the request that failed
    fetched,       \* SpecFetch: what FetchAll returned
    resp,          \* SpecFetch: the response written
    rq,            \* SpecRace: the two requests in flight
    applied,       \* SpecRace: the requests whose upsert was applied, in order
    pre,           \* SpecRace: the store and the cache when the requests arrived
    mig            \* SpecMigrate: the run of RunMigrations

dataVars  == <<store, cache, now, nextId>>
histVars  == <<last, fresh>>
fetchVars == <<pc, task, slot, outcome, gErr, gCtx, ctx, cut, req, arg, faults, fetched,
               resp>>
raceVars  == <<rq, applied, pre>>
vars      == <<store, cache, now, nextId, last, fresh,
               pc, task, slot, outcome, gErr, gCtx, ctx, cut, req, arg, faults, fetched, resp,
               rq, applied, pre, mig>>

----------------------------------------------------------------------------
(* Bounds of the model.                                                    *)

MaxUpserts == 2      \* successful upserts explored under Spec
MaxTime    == 2      \* half hours the clock advances
MaxVer     == 1      \* distinct upstream payloads per source

(* Program constants.                                                      *)

defaultTTL == 2      \* time.Hour, in half hours

----------------------------------------------------------------------------
(* Strings are sequences of characters, so that trimming and lower-casing  *)
(* are computed and not assumed.                                           *)

ToLowerChar(c) ==
    IF c = "P" THEN "p" ELSE IF c = "R" THEN "r" ELSE c

ToLower(s) == [i \in 1..Len(s) |-> ToLowerChar(s[i])]

RECURSIVE TrimLeft(_)
TrimLeft(s) ==
    IF s # <<>> /\ Head(s) = " " THEN TrimLeft(Tail(s)) ELSE s

RECURSIVE TrimRight(_)
TrimRight(s) ==
    IF s # <<>> /\ s[Len(s)] = " " THEN TrimRight(SubSeq(s, 1, Len(s) - 1)) ELSE s

TrimSpace(s) == TrimRight(TrimLeft(s))

(* The city path parameters the requests carry.                            *)
Cities == { <<"p">>, <<" ", "P">>, <<"r">> }

(* The ?country= query parameters; <<>> is a missing or empty parameter.   *)
CountryParams == { <<>>, <<"f">> }

key(city) == <<"destination:">> \o ToLower(TrimSpace(city))

Keys == { key(c) : c \in Cities }

----------------------------------------------------------------------------
(* DestinationData and its JSON document.                                  *)

Facts      == {"weather", "points_of_interest", "country", "quality_scores"}
SliceFacts == {"points_of_interest", "quality_scores"}

Nil   == 0           \* a nil pointer or nil slice
Empty == -1          \* a non-nil slice of length 0
Payloads == 1..MaxVer

(* A DestinationData value: every field Nil, Empty (slices) or a payload.  *)
ZeroData == [f \in Facts |-> Nil]

(* The DestinationData values: a pointer field is nil or set, a slice      *)
(* field is nil, empty or filled.                                          *)
Records ==
    { d \in [Facts -> {Nil, Empty} \cup Payloads] :
        \A f \in Facts \ SliceFacts : d[f] # Empty }

(* Mutant of Marshal: the struct tags without omitempty, so that an absent *)
(* fact is written as a null placeholder.                                  *)
Marshal_NoOmitEmpty(d) == [f \in Facts |-> d[f]]

(* json.Marshal with omitempty: a nil pointer and a slice of length 0 are  *)
(* left out of the document.  A document is a function on its keys.        *)
Marshal(d) ==
    [f \in { g \in Facts : d[g] # Nil /\ d[g] # Empty } |-> d[f]]

(* json.Unmarshal into a zero DestinationData: a key that is not in the    *)
(* document leaves the field nil.                                          *)
Unmarshal(doc) ==
    [f \in Facts |-> IF f \in DOMAIN doc THEN doc[f] ELSE Nil]

(* *DestinationData: nil, or a pointer to a value.                         *)
NilPtr   == [nil |-> TRUE, v |-> ZeroData]
Ptr(d)   == [nil |-> FALSE, v |-> d]

(* writeJSON(w, status, v).                                                *)
writeJSON(status, v) == [status |-> status, body |-> v]

(* map[string]string{"error": msg}; the 404 message is kept up to its dash.  *)
ErrBody(msg) == [error |-> msg]

----------------------------------------------------------------------------
(* Fetcher.FetchAll as a function of how the four Fetch calls ended.       *)

Outcomes == {"ok", "empty", "fail", "panic"}

(* "ok" is a fetch that delivered a payload, "empty" a successful fetch of  *)
(* zero elements (only the two list clients, POIClient and TeleportClient, *)
(* can end that way), "fail" a returned error, "panic" a runtime fault.    *)

(* The fetch results the requests of Spec are served with: every source    *)
(* answers; the weather source fails; all four fail; the two list sources  *)
(* answer with no element; the weather fetch panics.                       *)
Only(fs, out, other) == [f \in Facts |-> IF f \in fs THEN out ELSE other]

SpecOutcomes ==
    { Only({}, "fail", "ok"), Only({"weather"}, "fail", "ok"), Only(Facts, "fail", "ok"),
      Only(SliceFacts, "empty", "ok"), Only({"weather"}, "panic", "ok") }

SlotValue(out, v) ==
    IF out = "ok" THEN v ELSE IF out = "empty" THEN Empty ELSE Nil

FetchAll(o, v) ==
    IF \E f \in Facts : o[f] = "panic"
    THEN [err |-> TRUE,  data |-> NilPtr]
    ELSE [err |-> FALSE, data |-> Ptr([f \in Facts |-> SlotValue(o[f], v)])]

----------------------------------------------------------------------------
(* cache.Cache over Redis.                                                 *)

CacheGet(c, city, fault) ==
    IF fault THEN [data |-> NilPtr, err |-> TRUE]
    ELSE IF key(city) \notin DOMAIN c THEN [data |-> NilPtr, err |-> FALSE]
    ELSE [data |-> Ptr(Unmarshal(c[key(city)].val)), err |-> FALSE]

(* Mutant of CacheSet: the facts of the record are written one by one into *)
(* the document the key already holds.                                     *)
CacheSet_MergesFacts(c, city, data, fault, t) ==
    IF data.nil THEN [cache |-> c, err |-> FALSE]
    ELSE IF fault THEN [cache |-> c, err |-> TRUE]
    ELSE [cache |-> [k \in DOMAIN c \cup {key(city)} |->
                        IF k = key(city)
                        THEN [val |-> IF k \in DOMAIN c
                                      THEN [f \in DOMAIN c[k].val \cup DOMAIN Marshal(data.v) |->
                                              IF f \in DOMAIN Marshal(data.v)
                                              THEN Marshal(data.v)[f] ELSE c[k].val[f]]
                                      ELSE Marshal(data.v),
                              exp |-> t + defaultTTL]
                        ELSE c[k]],
          err |-> FALSE]

(* Mutant of CacheSet: the document is written with a null placeholder for *)
(* every absent fact.                                                      *)
CacheSet_WritesNulls(c, city, data, fault, t) ==
    IF data.nil THEN [cache |-> c, err |-> FALSE]
    ELSE IF fault THEN [cache |-> c, err |-> TRUE]
    ELSE [cache |-> [k \in DOMAIN c \cup {key(city)} |->
                        IF k = key(city)
                        THEN [val |-> Marshal_NoOmitEmpty(data.v), exp |-> t + defaultTTL]
                        ELSE c[k]],
          err |-> FALSE]

CacheSet(c, city, data, fault, t) ==
    IF data.nil THEN [cache |-> c, err |-> FALSE]
    ELSE IF fault THEN [cache |-> c, err |-> TRUE]
    ELSE [cache |-> [k \in DOMAIN c \cup {key(city)} |->
                        IF k = key(city)
                        THEN [val |-> Marshal(data.v), exp |-> t + defaultTTL]
                        ELSE c[k]],
          err |-> FALSE]

(* Mutant of CacheDelete: the key is built from the city as spelled.       *)
CacheDelete_AsSpelled(c, city, fault) ==
    IF fault THEN [cache |-> c, err |-> TRUE]
    ELSE [cache |-> [k \in DOMAIN c \ {<<"destination:">> \o city} |-> c[k]], err |-> FALSE]

CacheDelete(c, city, fault) ==
    IF fault THEN [cache |-> c, err |-> TRUE]
    ELSE [cache |-> [k \in DOMAIN c \ {key(city)} |-> c[k]], err |-> FALSE]

(* Mutant of Expire: an entry outlives its TTL by one tick.                *)
Expire_OneTickLate(c, t) == [k \in { j \in DOMAIN c : c[j].exp + 1 > t } |-> c[k]]

(* Redis drops an entry when its TTL has elapsed.                          *)
Expire(c, t) == [k \in { j \in DOMAIN c : c[j].exp > t } |-> c[k]]

----------------------------------------------------------------------------
(* storage.Repository over the destinations table.                         *)

NoDest == [nil |-> TRUE, Data |-> ZeroData]

(* Mutant of RepoGetDestination: pgx.ErrNoRows is not told apart from the  *)
(* other errors of the query.                                              *)
RepoGetDestination_NoRowsIsError(st, city, fault) ==
    LET rows == { r \in st : r.city = city /\ "weather" \in DOMAIN r.data }
    IN  IF fault \/ rows = {} THEN [dest |-> NoDest, err |-> TRUE]
        ELSE [dest |-> [nil |-> FALSE, Data |-> Unmarshal((CHOOSE r \in rows : TRUE).data)],
              err  |-> FALSE]

(* Mutant of RepoGetDestination: an error of the query is reported as an   *)
(* absent row.                                                             *)
RepoGetDestination_ErrorIsAbsent(st, city, fault) ==
    LET rows == { r \in st : r.city = city /\ "weather" \in DOMAIN r.data }
    IN  IF fault \/ rows = {} THEN [dest |-> NoDest, err |-> FALSE]
        ELSE [dest |-> [nil |-> FALSE, Data |-> Unmarshal((CHOOSE r \in rows : TRUE).data)],
              err  |-> FALSE]

(* Mutant of RepoGetDestination: the query without the JSONB condition.    *)
RepoGetDestination_NoWeatherFilter(st, city, fault) ==
    LET rows == { r \in st : r.city = city }
    IN  IF fault THEN [dest |-> NoDest, err |-> TRUE]
        ELSE IF rows = {} THEN [dest |-> NoDest, err |-> FALSE]
        ELSE [dest |-> [nil |-> FALSE, Data |-> Unmarshal((CHOOSE r \in rows : TRUE).data)],
              err  |-> FALSE]

(* SELECT ... WHERE city = $1 AND data ? 'weather'                         *)
RepoGetDestination(st, city, fault) ==
    LET rows == { r \in st : r.city = city /\ "weather" \in DOMAIN r.data }
    IN  IF fault THEN [dest |-> NoDest, err |-> TRUE]
        ELSE IF rows = {} THEN [dest |-> NoDest, err |-> FALSE]
        ELSE [dest |-> [nil |-> FALSE, Data |-> Unmarshal((CHOOSE r \in rows : TRUE).data)],
              err  |-> FALSE]

(* INSERT ... ON CONFLICT (city) DO UPDATE SET country, data, fetched_at,  *)
(* updated_at.  The sequence value is drawn for the proposed row before    *)
(* the conflict is detected.                                               *)
UpsertDestination(st, city, country, data, fault, t, id) ==
    IF fault THEN [store |-> st, err |-> TRUE]
    ELSE [store |->
            IF \E r \in st : r.city = city
            THEN { IF r.city = city
                   THEN [r EXCEPT !.country = country, !.data = Marshal(data),
                                  !.fetched_at = t, !.updated_at = t]
                   ELSE r : r \in st }
            ELSE st \cup { [id |-> id, city |-> city, country |-> country,
                            data |-> Marshal(data), fetched_at |-> t,
                            created_at |-> t, updated_at |-> t] },
          err |-> FALSE]

----------------------------------------------------------------------------
(* api.Handlers.                                                           *)

ReadFaults    == [cget : BOOLEAN, rget : BOOLEAN, cset : BOOLEAN]
RefreshFaults == [upsert : BOOLEAN, cdel : BOOLEAN, cset : BOOLEAN]

(* Mutant of GetDestination: an error of the cache lookup ends the read    *)
(* with 500.                                                               *)
GetDestination_CacheErrorFails(st, c, t, city, f) ==
    LET cached == CacheGet(c, city, f.cget)
        got    == RepoGetDestination(st, city, f.rget)
    IN  IF cached.err
        THEN [resp |-> writeJSON(500, ErrBody("internal server error")),
              cache |-> c, path |-> "cache"]
        ELSE IF ~cached.data.nil
        THEN [resp |-> writeJSON(200, Marshal(cached.data.v)), cache |-> c, path |-> "cache"]
        ELSE IF got.err
        THEN [resp |-> writeJSON(500, ErrBody("internal server error")),
              cache |-> c, path |-> "store"]
        ELSE IF got.dest.nil
        THEN [resp |-> writeJSON(404, ErrBody("destination not found")),
              cache |-> c, path |-> "store"]
        ELSE [resp  |-> writeJSON(200, Marshal(got.dest.Data)),
              cache |-> CacheSet(c, city, Ptr(got.dest.Data), f.cset, t).cache,
              path  |-> "store"]

(* Mutant of GetDestination: the store is queried first and the cache only *)
(* when the store returns no row.                                          *)
GetDestination_StoreFirst(st, c, t, city, f) ==
    LET cached == CacheGet(c, city, f.cget)
        got    == RepoGetDestination(st, city, f.rget)
    IN  IF got.err
        THEN [resp |-> writeJSON(500, ErrBody("internal server error")),
              cache |-> c, path |-> "store"]
        ELSE IF ~got.dest.nil
        THEN [resp  |-> writeJSON(200, Marshal(got.dest.Data)),
              cache |-> CacheSet(c, city, Ptr(got.dest.Data), f.cset, t).cache,
              path  |-> "store"]
        ELSE IF ~cached.data.nil
        THEN [resp |-> writeJSON(200, Marshal(cached.data.v)), cache |-> c, path |-> "cache"]
        ELSE [resp |-> writeJSON(404, ErrBody("destination not found")),
              cache |-> c, path |-> "store"]

(* Mutant of GetDestination: a record read from the store is returned but  *)
(* not written to the cache.                                               *)
GetDestination_NoRepopulate(st, c, t, city, f) ==
    LET cached == CacheGet(c, city, f.cget)
        got    == RepoGetDestination(st, city, f.rget)
    IN  IF ~cached.data.nil
        THEN [resp |-> writeJSON(200, Marshal(cached.data.v)), cache |-> c, path |-> "cache"]
        ELSE IF got.err
        THEN [resp |-> writeJSON(500, ErrBody("internal server error")),
              cache |-> c, path |-> "store"]
        ELSE IF got.dest.nil
        THEN [resp |-> writeJSON(404, ErrBody("destination not found")),
              cache |-> c, path |-> "store"]
        ELSE [resp  |-> writeJSON(200, Marshal(got.dest.Data)),
              cache |-> c,
              path  |-> "store"]

(* Mutant of GetDestination: when the store has no row the cache entry of  *)
(* the subject is deleted.                                                 *)
GetDestination_DropsEntryOnMiss(st, c, t, city, f) ==
    LET cached == CacheGet(c, city, f.cget)
        got    == RepoGetDestination(st, city, f.rget)
    IN  IF ~cached.data.nil
        THEN [resp |-> writeJSON(200, Marshal(cached.data.v)), cache |-> c, path |-> "cache"]
        ELSE IF got.err
        THEN [resp |-> writeJSON(500, ErrBody("internal server error")),
              cache |-> c, path |-> "store"]
        ELSE IF got.dest.nil
        THEN [resp |-> writeJSON(404, ErrBody("destination not found")),
              cache |-> CacheDelete(c, city, FALSE).cache, path |-> "store"]
        ELSE [resp  |-> writeJSON(200, Marshal(got.dest.Data)),
              cache |-> CacheSet(c, city, Ptr(got.dest.Data), f.cset, t).cache,
              path  |-> "store"]

(* GET /api/v1/destinations/{city}: the response and the cache it leaves.  *)
GetDestination(st, c, t, city, f) ==
    LET cached == CacheGet(c, city, f.cget)
        got    == RepoGetDestination(st, city, f.rget)
    IN  IF ~cached.data.nil
        THEN [resp |-> writeJSON(200, Marshal(cached.data.v)), cache |-> c, path |-> "cache"]
        ELSE IF got.err
        THEN [resp |-> writeJSON(500, ErrBody("internal server error")),
              cache |-> c, path |-> "store"]
        ELSE IF got.dest.nil
        THEN [resp |-> writeJSON(404, ErrBody("destination not found")),
              cache |-> c, path |-> "store"]
        ELSE [resp  |-> writeJSON(200, Marshal(got.dest.Data)),
              cache |-> CacheSet(c, city, Ptr(got.dest.Data), f.cset, t).cache,
              path  |-> "store"]

(* Mutant of CountryOf: the query parameter is ignored.                    *)
CountryOf_IgnoresParam(city, param) == city

(* country := the query parameter, or the city when it is empty.           *)
CountryOf(city, param) == IF param = <<>> THEN city ELSE param

(* Mutant of StoreAndCache: the cache entry is deleted before the upsert.   *)
StoreAndCache_InvalidatesFirst(st, c, t, id, city, country, data, f) ==
    LET del == CacheDelete(c, city, f.cdel)
        up  == UpsertDestination(st, city, country, data.v, f.upsert, t, id)
        set == CacheSet(del.cache, city, data, f.cset, t)
    IN  IF up.err
        THEN [resp |-> writeJSON(500, ErrBody("failed to store destination data")),
              store |-> st, cache |-> del.cache, upserted |-> FALSE]
        ELSE [resp |-> writeJSON(200, Marshal(data.v)),
              store |-> up.store, cache |-> set.cache, upserted |-> TRUE]

(* Mutant of StoreAndCache: a failing cache set fails the refresh.         *)
StoreAndCache_CacheSetIsFatal(st, c, t, id, city, country, data, f) ==
    LET up  == UpsertDestination(st, city, country, data.v, f.upsert, t, id)
        del == CacheDelete(c, city, f.cdel)
        set == CacheSet(del.cache, city, data, f.cset, t)
    IN  IF up.err
        THEN [resp |-> writeJSON(500, ErrBody("failed to store destination data")),
              store |-> st, cache |-> c, upserted |-> FALSE]
        ELSE IF set.err
        THEN [resp |-> writeJSON(500, ErrBody("internal server error")),
              store |-> up.store, cache |-> set.cache, upserted |-> TRUE]
        ELSE [resp |-> writeJSON(200, Marshal(data.v)),
              store |-> up.store, cache |-> set.cache, upserted |-> TRUE]

(* The steps of RefreshDestination after FetchAll returned without error.  *)
StoreAndCache(st, c, t, id, city, country, data, f) ==
    LET up  == UpsertDestination(st, city, country, data.v, f.upsert, t, id)
        del == CacheDelete(c, city, f.cdel)
        set == CacheSet(del.cache, city, data, f.cset, t)
    IN  IF up.err
        THEN [resp |-> writeJSON(500, ErrBody("failed to store destination data")),
              store |-> st, cache |-> c, upserted |-> FALSE]
        ELSE [resp |-> writeJSON(200, Marshal(data.v)),
              store |-> up.store, cache |-> set.cache, upserted |-> TRUE]

(* Mutant of RefreshDestination: the cache entry is invalidated before the *)
(* fetch.                                                                  *)
RefreshDestination_InvalidatesFirst(st, c, t, id, city, param, o, v, f) ==
    LET res == FetchAll(o, v)
        del == CacheDelete(c, city, f.cdel)
    IN  IF res.err
        THEN [resp |-> writeJSON(500, ErrBody("failed to fetch destination data")),
              store |-> st, cache |-> del.cache, upserted |-> FALSE]
        ELSE StoreAndCache(st, del.cache, t, id, city, CountryOf(city, param), res.data, f)

(* POST /api/v1/destinations/{city}/refresh.                               *)
RefreshDestination(st, c, t, id, city, param, o, v, f) ==
    LET res == FetchAll(o, v)
    IN  IF res.err
        THEN [resp |-> writeJSON(500, ErrBody("failed to fetch destination data")),
              store |-> st, cache |-> c, upserted |-> FALSE]
        ELSE StoreAndCache(st, c, t, id, city, CountryOf(city, param), res.data, f)

----------------------------------------------------------------------------
(* Spec: requests served one after another.                                *)

EmptyMap == [k \in {} |-> 0]
NoOut    == [f \in Facts |-> "none"]
NoPrior  == [some |-> FALSE, body |-> EmptyMap]
NoReq    == [op |-> "none", city |-> <<>>, status |-> 0, body |-> EmptyMap,
             out |-> NoOut, path |-> "none", prior |-> NoPrior]

(* What a request on `city` follows: the record of the request served just *)
(* before it, when that was a successful refresh of the same city.         *)
Prior(l, city) ==
    IF l.op = "refresh" /\ l.status = 200 /\ l.city = city
    THEN [some |-> TRUE, body |-> l.body]
    ELSE NoPrior

(* RunMigrations has not been called (it runs at start-up, before the      *)
(* router serves).                                                         *)
NoRun    == [step |-> "none"]

NoArgs   == [f \in Facts |-> [called |-> FALSE, with |-> <<>>]]

FetchIdle ==
    /\ pc = "idle"
    /\ task = [f \in Facts |-> "unborn"]
    /\ slot = ZeroData
    /\ outcome = NoOut
    /\ gErr = ""
    /\ gCtx = FALSE
    /\ ctx = FALSE
    /\ cut = {}
    /\ req = [city |-> <<>>, param |-> <<>>, v |-> 0]
    /\ arg = NoArgs
    /\ faults = {}
    /\ fetched = [err |-> FALSE, data |-> NilPtr]
    /\ resp = writeJSON(0, EmptyMap)

(* No concurrent requests in flight.                                       *)
RaceIdle ==
    /\ rq = EmptyMap
    /\ applied = <<>>
    /\ pre = [store |-> {}, cache |-> EmptyMap]

Init ==
    /\ store = {}
    /\ cache = EmptyMap
    /\ now = 0
    /\ nextId = 1
    /\ last = NoReq
    /\ fresh = EmptyMap
    /\ FetchIdle
    /\ RaceIdle
    /\ mig = NoRun

GetDestinationReq ==
    \E city \in Cities, f \in ReadFaults :
        LET r == GetDestination(store, cache, now, city, f)
        IN  /\ cache' = r.cache
            /\ last' = [op |-> "read", city |-> city, status |-> r.resp.status,
                        body |-> r.resp.body, out |-> NoOut, path |-> r.path,
                        prior |-> Prior(last, city)]
            /\ fresh' = fresh
            /\ UNCHANGED <<store, now, nextId>>
            /\ UNCHANGED <<fetchVars, raceVars, mig>>

RefreshDestinationReq ==
    \E city \in Cities, param \in CountryParams, o \in SpecOutcomes,
       v \in Payloads, f \in RefreshFaults :
        LET r == RefreshDestination(store, cache, now, nextId, city, param, o, v, f)
        IN  /\ nextId <= MaxUpserts
            /\ store' = r.store
            /\ cache' = r.cache
            /\ nextId' = IF r.upserted THEN nextId + 1 ELSE nextId
            /\ last' = [op |-> "refresh", city |-> city, status |-> r.resp.status,
                        body |-> r.resp.body, out |-> o, path |-> "fetch",
                        prior |-> Prior(last, city)]
            /\ fresh' = IF r.upserted
                        THEN [k \in DOMAIN fresh \cup {key(city)} |->
                                IF k = key(city)
                                THEN [city |-> city, body |-> r.resp.body, out |-> o]
                                ELSE fresh[k]]
                        ELSE fresh
            /\ now' = now
            /\ UNCHANGED <<fetchVars, raceVars, mig>>

(* Half an hour passes; Redis drops the entries whose TTL has elapsed.     *)
Tick ==
    /\ now < MaxTime
    /\ now' = now + 1
    /\ cache' = Expire(cache, now')
    /\ UNCHANGED <<store, nextId, last, fresh>>
    /\ UNCHANGED <<fetchVars, raceVars, mig>>

Next == GetDestinationReq \/ RefreshDestinationReq \/ Tick

Spec == Init /\ [][Next]_vars

----------------------------------------------------------------------------
(* SpecFetch: one refresh request, goroutine by goroutine.                 *)
(*                                                                         *)
(* FetchAll starts the four goroutines in source order, each calls its     *)
(* client's Fetch on the group context gCtx, and g.Wait joins them.  The   *)
(* handler then upserts, deletes the cache entry and sets it again.        *)

TaskOrder == <<"weather", "points_of_interest", "country", "quality_scores">>

(* How a Fetch can end.  The clients pass gCtx to the HTTP request, so a   *)
(* Fetch that ends after gCtx was cancelled has failed; a panic can happen *)
(* at any time.                                                            *)
EndsOf(f, cancelled) ==
    IF cancelled THEN {"fail", "panic"}
    ELSE IF f \in SliceFacts THEN {"ok", "empty", "fail", "panic"}
    ELSE {"ok", "fail", "panic"}

(* Mutant of WaitResult: all-or-nothing, an error as soon as one of the    *)
(* four results is missing.                                                *)
WaitResult_AllOrNothing(err, sl) ==
    IF err # "" \/ (\E f \in Facts : sl[f] = Nil) THEN [err |-> TRUE,  data |-> NilPtr]
    ELSE [err |-> FALSE, data |-> Ptr(sl)]

(* What g.Wait() hands back to FetchAll, and FetchAll to its caller.       *)
WaitResult(err, sl) ==
    IF err # "" THEN [err |-> TRUE,  data |-> NilPtr]
    ELSE [err |-> FALSE, data |-> Ptr(sl)]

FetchInit ==
    /\ store = {}
    /\ cache = EmptyMap
    /\ now = 0
    /\ nextId = 1
    /\ last = NoReq
    /\ fresh = EmptyMap
    /\ pc = "spawn"
    /\ task = [f \in Facts |-> "unborn"]
    /\ slot = ZeroData
    /\ outcome = NoOut
    /\ gErr = ""
    /\ gCtx = FALSE
    /\ ctx = FALSE
    /\ cut = {}
    /\ req \in [city : Cities, param : CountryParams, v : Payloads]
    /\ arg = NoArgs
    /\ faults = {}
    /\ fetched = [err |-> FALSE, data |-> NilPtr]
    /\ resp = writeJSON(0, EmptyMap)
    /\ RaceIdle
    /\ mig = NoRun

(* The argument of each client's Fetch in FetchAll(ctx, city, country):    *)
(* the countries client is called with the country, the others with the    *)
(* city.                                                                   *)
FetchArg(f, city, country) == IF f = "country" THEN country ELSE city

(* g.Go(func() ...): the next goroutine of FetchAll is started; the call   *)
(* of its client is the goroutine's first statement after the deferred     *)
(* recover.                                                                *)
Go ==
    /\ pc = "spawn"
    /\ \E i \in 1..Len(TaskOrder) :
         /\ task[TaskOrder[i]] = "unborn"
         /\ \A j \in 1..(i - 1) : task[TaskOrder[j]] # "unborn"
         /\ task' = [task EXCEPT ![TaskOrder[i]] = "running"]
         /\ arg' = [arg EXCEPT ![TaskOrder[i]] =
                        [called |-> TRUE,
                         with   |-> FetchArg(TaskOrder[i], req.city,
                                             CountryOf(req.city, req.param))]]
         /\ pc' = IF i = Len(TaskOrder) THEN "wait" ELSE "spawn"
    /\ UNCHANGED <<slot, outcome, gErr, gCtx, ctx, cut, req, faults, fetched, resp>>
    /\ UNCHANGED <<dataVars, histVars, raceVars, mig>>

(* Mutant of TaskEnds: the goroutine stores its result in the variables of *)
(* the goroutines that have not finished as well as in its own.            *)
TaskEnds_SharedSlot(f) ==
    /\ task[f] = "running"
    /\ \E out \in EndsOf(f, gCtx) :
         /\ outcome' = [outcome EXCEPT ![f] = out]
         /\ slot' = [g \in Facts |-> IF g = f \/ task[g] # "done"
                                     THEN SlotValue(out, req.v) ELSE slot[g]]
         /\ gErr' = IF out = "panic" /\ gErr = "" THEN f ELSE gErr
         /\ gCtx' = (gCtx \/ out = "panic")
    /\ task' = [task EXCEPT ![f] = "done"]
    /\ UNCHANGED <<pc, ctx, cut, req, arg, faults, fetched, resp>>
    /\ UNCHANGED <<dataVars, histVars, raceVars, mig>>

(* The goroutine of fact f: its Fetch ends, the result is stored in the    *)
(* goroutine's own variable, a panic is recovered into a returned error,   *)
(* and the errgroup records the first error and cancels gCtx.              *)
TaskEnds(f) ==
    /\ task[f] = "running"
    /\ \E out \in EndsOf(f, gCtx) :
         /\ outcome' = [outcome EXCEPT ![f] = out]
         /\ slot' = [slot EXCEPT ![f] = SlotValue(out, req.v)]
         /\ gErr' = IF out = "panic" /\ gErr = "" THEN f ELSE gErr
         /\ gCtx' = (gCtx \/ out = "panic")
    /\ task' = [task EXCEPT ![f] = "done"]
    /\ UNCHANGED <<pc, ctx, cut, req, arg, faults, fetched, resp>>
    /\ UNCHANGED <<dataVars, histVars, raceVars, mig>>

(* The caller's context is cancelled (client gone, deadline) while         *)
(* FetchAll runs; gCtx is derived from it.                                 *)
CancelCtx ==
    /\ pc \in {"spawn", "wait"}
    /\ ~ctx
    /\ ctx' = TRUE
    /\ gCtx' = TRUE
    /\ cut' = { f \in Facts : task[f] # "done" }
    /\ UNCHANGED <<pc, task, slot, outcome, gErr, req, arg, faults, fetched, resp>>
    /\ UNCHANGED <<dataVars, histVars, raceVars, mig>>

(* Mutant of Wait: g.Wait() returns as soon as one goroutine has.          *)
Wait_FirstDone ==
    /\ pc = "wait"
    /\ \E f \in Facts : task[f] = "done"
    /\ gCtx' = TRUE
    /\ fetched' = WaitResult(gErr, slot)
    /\ pc' = "fetched"
    /\ UNCHANGED <<task, slot, outcome, gErr, ctx, cut, req, arg, faults, resp>>
    /\ UNCHANGED <<dataVars, histVars, raceVars, mig>>

(* g.Wait() returns once all four goroutines have, and FetchAll returns.   *)
Wait ==
    /\ pc = "wait"
    /\ \A f \in Facts : task[f] = "done"
    /\ gCtx' = TRUE
    /\ fetched' = WaitResult(gErr, slot)
    /\ pc' = "fetched"
    /\ UNCHANGED <<task, slot, outcome, gErr, ctx, cut, req, arg, faults, resp>>
    /\ UNCHANGED <<dataVars, histVars, raceVars, mig>>

(* if err != nil { 500 }                                                   *)
FetchFailed ==
    /\ pc = "fetched"
    /\ fetched.err
    /\ resp' = writeJSON(500, ErrBody("failed to fetch destination data"))
    /\ pc' = "done"
    /\ UNCHANGED <<task, slot, outcome, gErr, gCtx, ctx, cut, req, arg, faults, fetched>>
    /\ UNCHANGED <<dataVars, histVars, raceVars, mig>>

(* h.repo.UpsertDestination(r.Context(), ...): fails when the store does,  *)
(* and when the request context is already cancelled.                      *)
Upsert ==
    /\ pc = "fetched"
    /\ ~fetched.err
    /\ \E fault \in (IF ctx THEN {TRUE} ELSE BOOLEAN) :
         LET up == UpsertDestination(store, req.city, CountryOf(req.city, req.param),
                                     fetched.data.v, fault, now, nextId)
         IN  /\ store' = up.store
             /\ nextId' = IF up.err THEN nextId ELSE nextId + 1
             /\ faults' = IF up.err THEN faults \cup {"upsert"} ELSE faults
             /\ resp' = IF up.err
                        THEN writeJSON(500, ErrBody("failed to store destination data"))
                        ELSE resp
             /\ pc' = IF up.err THEN "done" ELSE "cdel"
    /\ UNCHANGED <<task, slot, outcome, gErr, gCtx, ctx, cut, req, arg, fetched>>
    /\ UNCHANGED <<cache, now, histVars, raceVars, mig>>

(* Mutant of CacheDel: a failing cache delete ends the request, which is   *)
(* answered without a cache set.                                           *)
CacheDel_StopsOnError ==
    /\ pc = "cdel"
    /\ \E fault \in BOOLEAN :
         LET del == CacheDelete(cache, req.city, fault)
         IN  /\ cache' = del.cache
             /\ faults' = IF del.err THEN faults \cup {"cdel"} ELSE faults
             /\ pc' = IF del.err THEN "done" ELSE "cset"
             /\ resp' = IF del.err THEN writeJSON(200, Marshal(fetched.data.v)) ELSE resp
    /\ UNCHANGED <<task, slot, outcome, gErr, gCtx, ctx, cut, req, arg, fetched>>
    /\ UNCHANGED <<store, now, nextId, histVars, raceVars, mig>>

(* h.cache.Delete(r.Context(), city)                                       *)
CacheDel ==
    /\ pc = "cdel"
    /\ \E fault \in BOOLEAN :
         LET del == CacheDelete(cache, req.city, fault)
         IN  /\ cache' = del.cache
             /\ faults' = IF del.err THEN faults \cup {"cdel"} ELSE faults
    /\ pc' = "cset"
    /\ UNCHANGED <<task, slot, outcome, gErr, gCtx, ctx, cut, req, arg, fetched, resp>>
    /\ UNCHANGED <<store, now, nextId, histVars, raceVars, mig>>

(* h.cache.Set(r.Context(), city, data); writeJSON(w, 200, data)           *)
CacheSetAndReply ==
    /\ pc = "cset"
    /\ \E fault \in BOOLEAN :
         LET set == CacheSet(cache, req.city, fetched.data, fault, now)
         IN  /\ cache' = set.cache
             /\ faults' = IF set.err THEN faults \cup {"cset"} ELSE faults
    /\ resp' = writeJSON(200, Marshal(fetched.data.v))
    /\ pc' = "done"
    /\ UNCHANGED <<task, slot, outcome, gErr, gCtx, ctx, cut, req, arg, fetched>>
    /\ UNCHANGED <<store, now, nextId, histVars, raceVars, mig>>

FetchNext ==
    \/ Go
    \/ \E f \in Facts : TaskEnds(f)
    \/ CancelCtx
    \/ Wait
    \/ FetchFailed
    \/ Upsert
    \/ CacheDel
    \/ CacheSetAndReply

SpecFetch == FetchInit /\ [][FetchNext]_vars

(* SpecFetch with the scheduling the runtime gives: a goroutine that can be *)
(* started is started, g.Wait returns once it can, and every Fetch ends:   *)
(* the HTTP client has a 10-second timeout and the request carries gCtx,   *)
(* so a call returns or honours the cancellation.                          *)
SpecFetchFair ==
    /\ SpecFetch
    /\ WF_vars(Go)
    /\ \A f \in Facts : WF_vars(TaskEnds(f))
    /\ WF_vars(Wait)

----------------------------------------------------------------------------
(* SpecRace: two requests served concurrently, each a GetDestination or a  *)
(* RefreshDestination.                                                     *)
(*                                                                         *)
(* The handlers hold no lock; each call a request makes on the fetcher,    *)
(* the store or the cache is one step, and the steps of the two requests   *)
(* interleave freely.  The upsert is a single SQL statement and is atomic, *)
(* and so are the SELECT and the Redis GET, SET and DEL.                   *)

Procs == {1, 2}

(* The upstream data differ between the two requests: request i is served  *)
(* payload i by the sources that answer it.                                *)
RaceVer(i) == i

(* The requests arrive at a service that has never stored the city, or     *)
(* that an earlier refresh of "p", served a third payload by all four      *)
(* sources, left with a row and with or without (TTL elapsed) the cache    *)
(* entry.                                                                  *)
PriorVer == 3
PriorData == [f \in Facts |-> PriorVer]
PriorRow ==
    CHOOSE r \in UpsertDestination({}, <<"p">>, <<"p">>, PriorData, FALSE, 0, 1).store : TRUE
PreStates ==
    { [store |-> {}, cache |-> EmptyMap],
      [store |-> {PriorRow}, cache |-> EmptyMap],
      [store |-> {PriorRow},
       cache |-> CacheSet(EmptyMap, <<"p">>, Ptr(PriorData), FALSE, 0).cache] }

RaceRequests ==
    [kind : {"refresh"}, city : Cities, param : CountryParams, pc : {"fetch"},
     data : {NilPtr}, resp : {writeJSON(0, EmptyMap)}, faulted : {FALSE}]
    \cup
    [kind : {"read"}, city : Cities, param : {<<>>}, pc : {"cget"},
     data : {NilPtr}, resp : {writeJSON(0, EmptyMap)}, faulted : {FALSE}]

RaceInit ==
    /\ pre \in PreStates
    /\ store = pre.store
    /\ cache = pre.cache
    /\ now = 0
    /\ nextId = Cardinality(pre.store) + 1
    /\ last = NoReq
    /\ fresh = EmptyMap
    /\ FetchIdle
    /\ mig = NoRun
    /\ rq \in [Procs -> RaceRequests]
    /\ applied = <<>>

(* data, err := h.fetcher.FetchAll(r.Context(), city, country)             *)
RaceFetchAll(i) ==
    /\ rq[i].pc = "fetch"
    /\ \E o \in SpecOutcomes :
         LET res == FetchAll(o, RaceVer(i))
         IN  rq' = [rq EXCEPT ![i].data = res.data,
                              ![i].pc   = IF res.err THEN "done" ELSE "upsert",
                              ![i].resp = IF res.err
                                          THEN writeJSON(500, ErrBody("failed to fetch destination data"))
                                          ELSE @]
    /\ UNCHANGED <<dataVars, histVars, fetchVars, applied, pre, mig>>

(* Mutant of RaceUpsert: the refresh goes on to its cache calls when the   *)
(* upsert has failed.                                                      *)
RaceUpsert_ContinuesOnError(i) ==
    /\ rq[i].pc = "upsert"
    /\ \E fault \in BOOLEAN :
         LET up == UpsertDestination(store, rq[i].city, CountryOf(rq[i].city, rq[i].param),
                                     rq[i].data.v, fault, now, nextId)
         IN  /\ store' = up.store
             /\ nextId' = IF up.err THEN nextId ELSE nextId + 1
             /\ applied' = IF up.err THEN applied ELSE Append(applied, i)
             /\ rq' = [rq EXCEPT ![i].pc = "cdel", ![i].faulted = @ \/ fault]
    /\ UNCHANGED <<cache, now, histVars, fetchVars, pre, mig>>

(* Mutant of RaceUpsert: the refresh answers after its upsert and leaves   *)
(* the cache as it is.                                                     *)
RaceUpsert_SkipsCache(i) ==
    /\ rq[i].pc = "upsert"
    /\ \E fault \in BOOLEAN :
         LET up == UpsertDestination(store, rq[i].city, CountryOf(rq[i].city, rq[i].param),
                                     rq[i].data.v, fault, now, nextId)
         IN  /\ store' = up.store
             /\ nextId' = IF up.err THEN nextId ELSE nextId + 1
             /\ applied' = IF up.err THEN applied ELSE Append(applied, i)
             /\ rq' = [rq EXCEPT ![i].pc   = "done",
                                  ![i].resp = IF up.err
                                              THEN writeJSON(500, ErrBody("failed to store destination data"))
                                              ELSE writeJSON(200, Marshal(rq[i].data.v)),
                                  ![i].faulted = @ \/ fault]
    /\ UNCHANGED <<cache, now, histVars, fetchVars, pre, mig>>

(* h.repo.UpsertDestination(r.Context(), city, country, *data)             *)
RaceUpsert(i) ==
    /\ rq[i].pc = "upsert"
    /\ \E fault \in BOOLEAN :
         LET up == UpsertDestination(store, rq[i].city, CountryOf(rq[i].city, rq[i].param),
                                     rq[i].data.v, fault, now, nextId)
         IN  /\ store' = up.store
             /\ nextId' = IF up.err THEN nextId ELSE nextId + 1
             /\ applied' = IF up.err THEN applied ELSE Append(applied, i)
             /\ rq' = [rq EXCEPT ![i].pc   = IF up.err THEN "done" ELSE "cdel",
                                  ![i].resp = IF up.err
                                              THEN writeJSON(500, ErrBody("failed to store destination data"))
                                              ELSE @,
                                  ![i].faulted = @ \/ fault]
    /\ UNCHANGED <<cache, now, histVars, fetchVars, pre, mig>>

(* h.cache.Delete(r.Context(), city)                                       *)
RaceCacheDel(i) ==
    /\ rq[i].pc = "cdel"
    /\ \E fault \in BOOLEAN :
         /\ cache' = CacheDelete(cache, rq[i].city, fault).cache
         /\ rq' = [rq EXCEPT ![i].pc = "cset", ![i].faulted = @ \/ fault]
    /\ UNCHANGED <<store, now, nextId, histVars, fetchVars, applied, pre, mig>>

(* h.cache.Set(r.Context(), city, data); writeJSON(w, 200, data)           *)
RaceCacheSetAndReply(i) ==
    /\ rq[i].pc = "cset"
    /\ \E fault \in BOOLEAN :
         /\ cache' = CacheSet(cache, rq[i].city, rq[i].data, fault, now).cache
         /\ rq' = [rq EXCEPT ![i].pc = "done",
                             ![i].resp = writeJSON(200, Marshal(rq[i].data.v)),
                             ![i].faulted = @ \/ fault]
    /\ UNCHANGED <<store, now, nextId, histVars, fetchVars, applied, pre, mig>>

(* cached, err := h.cache.Get(r.Context(), city); a hit is the response.   *)
RaceCacheGet(i) ==
    /\ rq[i].pc = "cget"
    /\ \E fault \in BOOLEAN :
         LET cached == CacheGet(cache, rq[i].city, fault)
         IN  rq' = IF ~cached.data.nil
                   THEN [rq EXCEPT ![i].pc = "done",
                                   ![i].resp = writeJSON(200, Marshal(cached.data.v))]
                   ELSE [rq EXCEPT ![i].pc = "rget", ![i].faulted = @ \/ fault]
    /\ UNCHANGED <<dataVars, histVars, fetchVars, applied, pre, mig>>

(* dest, err := h.repo.GetDestination(r.Context(), city): 500 on an error, *)
(* 404 without a row.                                                      *)
RaceRepoGet(i) ==
    /\ rq[i].pc = "rget"
    /\ \E fault \in BOOLEAN :
         LET got == RepoGetDestination(store, rq[i].city, fault)
         IN  rq' = IF got.err
                   THEN [rq EXCEPT ![i].pc = "done", ![i].faulted = TRUE,
                                   ![i].resp = writeJSON(500, ErrBody("internal server error"))]
                   ELSE IF got.dest.nil
                   THEN [rq EXCEPT ![i].pc = "done",
                                   ![i].resp = writeJSON(404, ErrBody("destination not found"))]
                   ELSE [rq EXCEPT ![i].pc = "rcset", ![i].data = Ptr(got.dest.Data)]
    /\ UNCHANGED <<dataVars, histVars, fetchVars, applied, pre, mig>>

(* h.cache.Set(r.Context(), city, &dest.Data); writeJSON(w, 200, dest.Data) *)
RaceRepopulateAndReply(i) ==
    /\ rq[i].pc = "rcset"
    /\ \E fault \in BOOLEAN :
         /\ cache' = CacheSet(cache, rq[i].city, rq[i].data, fault, now).cache
         /\ rq' = [rq EXCEPT ![i].pc = "done",
                             ![i].resp = writeJSON(200, Marshal(rq[i].data.v)),
                             ![i].faulted = @ \/ fault]
    /\ UNCHANGED <<store, now, nextId, histVars, fetchVars, applied, pre, mig>>

RaceNext ==
    \E i \in Procs :
        \/ RaceFetchAll(i)
        \/ RaceUpsert(i)
        \/ RaceCacheDel(i)
        \/ RaceCacheSetAndReply(i)
        \/ RaceCacheGet(i)
        \/ RaceRepoGet(i)
        \/ RaceRepopulateAndReply(i)

SpecRace == RaceInit /\ [][RaceNext]_vars

----------------------------------------------------------------------------
(* SpecCache: Get, Set and Delete of cache.Cache called one after another  *)
(* with every city spelling, every record and with or without a Redis      *)
(* failure, while time passes.                                             *)

(* The last operation: its city, the record it wrote (Set without error)   *)
(* or returned (Get), and whether it returned an error.                    *)
NoOp == [op |-> "none", city |-> <<>>, data |-> NilPtr, err |-> FALSE]

CacheInit ==
    /\ store = {}
    /\ cache = EmptyMap
    /\ now = 0
    /\ nextId = 1
    /\ last = NoOp
    /\ fresh = EmptyMap
    /\ FetchIdle
    /\ RaceIdle
    /\ mig = NoRun

SetOp ==
    \E city \in Cities, data \in {NilPtr} \cup { Ptr(d) : d \in Records }, fault \in BOOLEAN :
        LET s == CacheSet(cache, city, data, fault, now)
        IN  /\ cache' = s.cache
            /\ last' = [op |-> "set", city |-> city,
                        data |-> IF s.err THEN NilPtr ELSE data, err |-> s.err]
            /\ UNCHANGED <<store, now, nextId, fresh>>
            /\ UNCHANGED <<fetchVars, raceVars, mig>>

GetOp ==
    \E city \in Cities, fault \in BOOLEAN :
        LET g == CacheGet(cache, city, fault)
        IN  /\ last' = [op |-> "get", city |-> city, data |-> g.data, err |-> g.err]
            /\ UNCHANGED <<store, cache, now, nextId, fresh>>
            /\ UNCHANGED <<fetchVars, raceVars, mig>>

DeleteOp ==
    \E city \in Cities, fault \in BOOLEAN :
        LET d == CacheDelete(cache, city, fault)
        IN  /\ cache' = d.cache
            /\ last' = [op |-> "delete", city |-> city, data |-> NilPtr, err |-> d.err]
            /\ UNCHANGED <<store, now, nextId, fresh>>
            /\ UNCHANGED <<fetchVars, raceVars, mig>>

CacheNext == SetOp \/ GetOp \/ DeleteOp \/ Tick

SpecCache == CacheInit /\ [][CacheNext]_vars

----------------------------------------------------------------------------
(* SpecHttp: requests entering the router of NewRouter one after another.  *)
(* The rate limiter is the first middleware that answers, the health route *)
(* is registered outside the group, and the two destination routes are     *)
(* behind BearerAuth.  `last` is the last exchange: the route, the         *)
(* Authorization header, whether the limiter refused the caller's IP, the  *)
(* response, what the request accessed and the pings of the health check.  *)

Routes == {"health", "read", "refresh"}

(* Upserts applied in a behaviour of SpecHttp.                             *)
MaxHttpUpserts == 1

(* The "Bearer " prefix and the configured BEARER_TOKEN (mustEnv: not      *)
(* empty).                                                                 *)
Bearer == <<"B", "e", "a", "r", "e", "r", " ">>
Token  == <<"t">>

(* Authorization headers: none (Header.Get returns ""), the bare token,    *)
(* the right credential, another token, the prefix alone, the prefix in    *)
(* lower case, the prefix twice, and the token followed by more.           *)
Headers ==
    { <<>>, Token, Bearer \o Token, Bearer \o <<"x">>, Bearer,
      <<"b", "e", "a", "r", "e", "r", " ">> \o Token,
      Bearer \o Bearer \o Token, Bearer \o Token \o <<"x">> }

(* strings.HasPrefix and strings.TrimPrefix.                               *)
HasPrefix(s, prefix) ==
    Len(s) >= Len(prefix) /\ SubSeq(s, 1, Len(prefix)) = prefix
TrimPrefix(s, prefix) ==
    IF HasPrefix(s, prefix) THEN SubSeq(s, Len(prefix) + 1, Len(s)) ELSE s

(* subtle.ConstantTimeCompare: 1 when the slices have equal contents.      *)
ConstantTimeCompare(x, y) == IF Len(x) = Len(y) /\ x = y THEN 1 ELSE 0

(* Mutant of BearerAuth: the prefix is trimmed but not required.           *)
BearerAuth_PrefixOptional(auth, token) ==
    ~(ConstantTimeCompare(TrimPrefix(auth, Bearer), token) # 1)

(* BearerAuth(token): TRUE when the request is handed to next.ServeHTTP.   *)
BearerAuth(auth, token) ==
    LET provided == TrimPrefix(auth, Bearer)
    IN  ~(ConstantTimeCompare(provided, token) # 1 \/ ~HasPrefix(auth, Bearer))

(* Mutant of HealthHandlerFunc: the cache is not pinged once the store     *)
(* ping has failed.                                                        *)
HealthHandlerFunc_StopsAtFirstFailure(dbErr, redisErr) ==
    LET status == IF dbErr \/ redisErr THEN 503 ELSE 200
    IN  [resp  |-> writeJSON(status,
                     [status |-> IF status = 200 THEN "ok" ELSE "degraded",
                      db     |-> IF dbErr THEN "error" ELSE "ok",
                      redis  |-> IF ~dbErr /\ redisErr THEN "error" ELSE "ok"]),
         pings |-> IF dbErr THEN <<"db">> ELSE <<"db", "redis">>]

(* HealthHandlerFunc: db.Ping, then redis.Ping, then the response.         *)
HealthHandlerFunc(dbErr, redisErr) ==
    LET status1     == IF dbErr THEN 503 ELSE 200
        dbStatus    == IF dbErr THEN "error" ELSE "ok"
        status      == IF redisErr THEN 503 ELSE status1
        redisStatus == IF redisErr THEN "error" ELSE "ok"
    IN  [resp  |-> writeJSON(status,
                     [status |-> IF status = 200 THEN "ok" ELSE "degraded",
                      db     |-> dbStatus,
                      redis  |-> redisStatus]),
         pings |-> <<"db", "redis">>]

NoPings    == [sent |-> <<>>, dbErr |-> FALSE, redisErr |-> FALSE]
NoExchange == [route |-> "none", auth |-> <<>>, limited |-> FALSE,
               resp |-> writeJSON(0, EmptyMap), touched |-> {}, pings |-> NoPings]

HttpInit ==
    /\ store = {}
    /\ cache = EmptyMap
    /\ now = 0
    /\ nextId = 1
    /\ last = NoExchange
    /\ fresh = EmptyMap
    /\ FetchIdle
    /\ RaceIdle
    /\ mig = NoRun

(* httprate.LimitByIP(60, time.Minute): the caller's IP has used up its    *)
(* requests of the minute, the limiter answers 429 and calls no handler.   *)
RateLimited ==
    \E route \in Routes, auth \in Headers :
        /\ last' = [route |-> route, auth |-> auth, limited |-> TRUE,
                    resp |-> writeJSON(429, [text |-> "Too Many Requests"]),
                    touched |-> {}, pings |-> NoPings]
        /\ UNCHANGED <<dataVars, fresh, fetchVars, raceVars, mig>>

(* GET /api/v1/health, registered before the group: no BearerAuth.         *)
HealthRoute ==
    \E auth \in Headers, dbErr \in BOOLEAN, redisErr \in BOOLEAN :
        LET h == HealthHandlerFunc(dbErr, redisErr)
        IN  /\ last' = [route |-> "health", auth |-> auth, limited |-> FALSE,
                        resp |-> h.resp, touched |-> {},
                        pings |-> [sent |-> h.pings, dbErr |-> dbErr, redisErr |-> redisErr]]
            /\ UNCHANGED <<dataVars, fresh, fetchVars, raceVars, mig>>

(* A destination route whose request BearerAuth does not hand on: 401.     *)
Unauthorized ==
    \E route \in Routes \ {"health"}, auth \in Headers :
        /\ ~BearerAuth(auth, Token)
        /\ last' = [route |-> route, auth |-> auth, limited |-> FALSE,
                    resp |-> writeJSON(401, ErrBody("unauthorized")),
                    touched |-> {}, pings |-> NoPings]
        /\ UNCHANGED <<dataVars, fresh, fetchVars, raceVars, mig>>

(* GET /api/v1/destinations/{city} behind BearerAuth.                      *)
ReadRoute ==
    \E auth \in Headers, city \in Cities, f \in ReadFaults :
        LET r == GetDestination(store, cache, now, city, f)
        IN  /\ BearerAuth(auth, Token)
            /\ cache' = r.cache
            /\ last' = [route |-> "read", auth |-> auth, limited |-> FALSE,
                        resp |-> r.resp,
                        touched |-> IF r.path = "cache" THEN {"cache"} ELSE {"cache", "store"},
                        pings |-> NoPings]
            /\ UNCHANGED <<store, now, nextId, fresh, fetchVars, raceVars, mig>>

(* POST /api/v1/destinations/{city}/refresh behind BearerAuth.             *)
RefreshRoute ==
    \E auth \in Headers, city \in Cities, param \in CountryParams, o \in SpecOutcomes,
       v \in Payloads, f \in RefreshFaults :
        LET r == RefreshDestination(store, cache, now, nextId, city, param, o, v, f)
        IN  /\ BearerAuth(auth, Token)
            /\ nextId <= MaxHttpUpserts
            /\ store' = r.store
            /\ cache' = r.cache
            /\ nextId' = IF r.upserted THEN nextId + 1 ELSE nextId
            /\ last' = [route |-> "refresh", auth |-> auth, limited |-> FALSE,
                        resp |-> r.resp,
                        touched |-> {"source"}
                                    \cup (IF FetchAll(o, v).err THEN {} ELSE {"store"})
                                    \cup (IF r.upserted THEN {"cache"} ELSE {}),
                        pings |-> NoPings]
            /\ UNCHANGED <<now, fresh, fetchVars, raceVars, mig>>

HttpNext == RateLimited \/ HealthRoute \/ Unauthorized \/ ReadRoute \/ RefreshRoute

SpecHttp == HttpInit /\ [][HttpNext]_vars

----------------------------------------------------------------------------
(* SpecMigrate: one call of storage.RunMigrations, system call by system   *)
(* call and database call by database call.  File names are sequences of   *)
(* characters, compared byte by byte as sort.Strings does.                 *)

(* The byte of each character that occurs in the names.                    *)
Byte == [c \in {".", "/", "0", "1", "2", "a", "d", "l", "m", "q", "s", "t", "x"} |->
            CASE c = "." -> 46 [] c = "/" -> 47 [] c = "0" -> 48 [] c = "1" -> 49
              [] c = "2" -> 50 [] c = "a" -> 97 [] c = "d" -> 100 [] c = "l" -> 108
              [] c = "m" -> 109 [] c = "q" -> 113 [] c = "s" -> 115 [] c = "t" -> 116
              [] c = "x" -> 120]

SqlSuffix == <<".", "s", "q", "l">>

(* What the migrations directory may contain: three migrations, of which   *)
(* "10.sql" sorts before "2.sql", a file that is no migration, and a       *)
(* directory whose name ends in .sql.                                      *)
DirPool ==
    { [name |-> <<"1">> \o SqlSuffix,      isDir |-> FALSE],
      [name |-> <<"1", "0">> \o SqlSuffix, isDir |-> FALSE],
      [name |-> <<"2">> \o SqlSuffix,      isDir |-> FALSE],
      [name |-> <<"a", ".", "t", "x", "t">>, isDir |-> FALSE],
      [name |-> <<"d">> \o SqlSuffix,      isDir |-> TRUE] }

(* strings.HasSuffix.                                                      *)
HasSuffix(s, suffix) ==
    Len(s) >= Len(suffix) /\ SubSeq(s, Len(s) - Len(suffix) + 1, Len(s)) = suffix

(* filepath.Join(migrationsDir, name), the directory being "m".            *)
Join(name) == <<"m", "/">> \o name

(* a < b for Go strings: the first differing byte decides, a proper prefix *)
(* is smaller.                                                             *)
Less(a, b) ==
    \E k \in 1..(Len(b)) :
        /\ k <= Len(a) + 1
        /\ SubSeq(a, 1, k - 1) = SubSeq(b, 1, k - 1)
        /\ (k = Len(a) + 1 \/ Byte[a[k]] < Byte[b[k]])

(* sort.Strings, applied to the set of the (distinct) paths.               *)
RECURSIVE SortStrings(_)
SortStrings(S) ==
    IF S = {} THEN <<>>
    ELSE LET m == CHOOSE x \in S : \A y \in S \ {x} : Less(x, y)
         IN  <<m>> \o SortStrings(S \ {m})

(* The files RunMigrations keeps of the entries of the directory.          *)
MigrationFiles(entries) ==
    SortStrings({ Join(e.name) : e \in { x \in entries : ~x.isDir /\ HasSuffix(x.name, SqlSuffix) } })

(* The run: the entries of the directory, the sorted files, the index of   *)
(* the file at hand, the next call, the open transaction, and the history  *)
(* of the database: transactions begun, committed and rolled back.         *)
MigrateInit ==
    /\ store = {}
    /\ cache = EmptyMap
    /\ now = 0
    /\ nextId = 1
    /\ last = NoReq
    /\ fresh = EmptyMap
    /\ FetchIdle
    /\ RaceIdle
    /\ \E entries \in SUBSET DirPool :
          mig = [step |-> "readdir", entries |-> entries, files |-> <<>>, i |-> 1,
                 tx |-> <<>>, begun |-> <<>>, committed |-> <<>>, rolledBack |-> <<>>,
                 err |-> ""]

(* The loop goes to the next file, or RunMigrations returns nil.           *)
NextFile(m) ==
    IF m.i < Len(m.files) THEN [m EXCEPT !.i = @ + 1, !.step = "readfile"]
    ELSE [m EXCEPT !.i = @ + 1, !.step = "done"]

(* os.ReadDir, the filter on the entries and sort.Strings.                 *)
ReadDir ==
    /\ mig.step = "readdir"
    /\ \E fault \in BOOLEAN :
         mig' = IF fault
                THEN [mig EXCEPT !.step = "done", !.err = "reading migrations dir"]
                ELSE LET files == MigrationFiles(mig.entries)
                     IN  [mig EXCEPT !.files = files, !.i = 1,
                                     !.step = IF files = <<>> THEN "done" ELSE "readfile"]
    /\ UNCHANGED <<dataVars, histVars, fetchVars, raceVars>>

(* os.ReadFile(f)                                                          *)
ReadFile ==
    /\ mig.step = "readfile"
    /\ \E fault \in BOOLEAN :
         mig' = IF fault
                THEN [mig EXCEPT !.step = "done", !.err = "reading migration"]
                ELSE [mig EXCEPT !.step = "begin"]
    /\ UNCHANGED <<dataVars, histVars, fetchVars, raceVars>>

(* runInTx: pool.Begin(ctx)                                                *)
Begin ==
    /\ mig.step = "begin"
    /\ \E fault \in BOOLEAN :
         mig' = IF fault
                THEN [mig EXCEPT !.step = "done", !.err = "beginning transaction"]
                ELSE [mig EXCEPT !.step = "exec", !.tx = mig.files[mig.i],
                                 !.begun = Append(@, mig.files[mig.i])]
    /\ UNCHANGED <<dataVars, histVars, fetchVars, raceVars>>

(* Mutant of Exec: after the rollback of a failed file the loop goes on    *)
(* with the next one.                                                      *)
Exec_ContinuesAfterRollback ==
    /\ mig.step = "exec"
    /\ \E fault \in BOOLEAN :
         mig' = IF fault
                THEN NextFile([mig EXCEPT !.tx = <<>>, !.rolledBack = Append(@, mig.tx)])
                ELSE [mig EXCEPT !.step = "commit"]
    /\ UNCHANGED <<dataVars, histVars, fetchVars, raceVars>>

(* runInTx: tx.Exec(ctx, sql), and tx.Rollback(ctx) when it fails.         *)
Exec ==
    /\ mig.step = "exec"
    /\ \E fault \in BOOLEAN :
         mig' = IF fault
                THEN [mig EXCEPT !.step = "done", !.err = "executing SQL",
                                 !.tx = <<>>, !.rolledBack = Append(@, mig.tx)]
                ELSE [mig EXCEPT !.step = "commit"]
    /\ UNCHANGED <<dataVars, histVars, fetchVars, raceVars>>

(* runInTx: tx.Commit(ctx).  When Commit returns an error the transaction  *)
(* is over; the server has discarded it, or has committed it and the       *)
(* acknowledgement was lost.                                               *)
Commit ==
    /\ mig.step = "commit"
    /\ \E fault \in BOOLEAN, durable \in BOOLEAN :
         /\ ~fault => durable
         /\ mig' = IF fault
                   THEN [mig EXCEPT !.step = "done", !.err = "committing transaction",
                                    !.tx = <<>>,
                                    !.committed = IF durable THEN Append(@, mig.tx) ELSE @]
                   ELSE NextFile([mig EXCEPT !.tx = <<>>, !.committed = Append(@, mig.tx)])
    /\ UNCHANGED <<dataVars, histVars, fetchVars, raceVars>>

MigrateNext == ReadDir \/ ReadFile \/ Begin \/ Exec \/ Commit

SpecMigrate == MigrateInit /\ [][MigrateNext]_vars

----------------------------------------------------------------------------
(* Properties checked under Spec.                                          *)

(* C1 (as claimed): a read that immediately follows a successful refresh   *)
(* of the same city, and whose store query did not itself fail, answers    *)
(* 200 with the record the refresh returned.                               *)
C1_ReadAfterRefreshReturnsRecord ==
    (last.op = "read" /\ last.prior.some /\ last.status # 500)
        => (last.status = 200 /\ last.body = last.prior.body)

(* C2 (as claimed): a read of a subject that has had no successful refresh *)
(* answers 404, never a record and never a read failure.                   *)
C2_ReadBeforeRefreshIsNotFound ==
    (last.op = "read" /\ key(last.city) \notin DOMAIN fresh) => last.status = 404

(* C2 (amended): a read of a subject that has had no successful refresh    *)
(* never answers with a record; it answers 404 when its store query        *)
(* succeeds and 500 when the store query fails, whatever the cache does.   *)
C2_ReadBeforeRefreshNeverARecord ==
    /\ (last.op = "read" /\ key(last.city) \notin DOMAIN fresh)
           => (last.status \in {404, 500} /\ last.path = "store")
    /\ \A city \in Cities, f \in ReadFaults :
           key(city) \notin DOMAIN fresh
               => GetDestination(store, cache, now, city, f).resp.status
                      = IF f.rget THEN 500 ELSE 404

(* C2 witness: a read answered 404 for a subject never refreshed, after    *)
(* another subject was refreshed and stored.                               *)
C2_Witness ==
    /\ last.op = "read"
    /\ key(last.city) \notin DOMAIN fresh
    /\ last.status = 404
    /\ store # {}

(* C5 (as claimed): after a successful refresh of a city whose record has  *)
(* weather absent and the other three facts present, a later read of that  *)
(* city (no refresh of the subject in between, store query not failing)    *)
(* answers 200 with that record.                                           *)
C5_PartialRecordIsServed ==
    LET k == key(last.city)
    IN  (/\ last.op = "read"
         /\ last.status # 500
         /\ k \in DOMAIN fresh
         /\ fresh[k].city = last.city
         /\ DOMAIN fresh[k].body = Facts \ {"weather"})
            => (last.status = 200 /\ last.body = fresh[k].body)

(* C6 (as claimed): after a refresh in which all four sources failed and   *)
(* the upsert succeeded, a read of that city (store query not failing)     *)
(* answers 200 with the empty record, never 404.                           *)
C6_EmptyRecordIsServed ==
    LET k == key(last.city)
    IN  (/\ last.op = "read"
         /\ last.status # 500
         /\ k \in DOMAIN fresh
         /\ fresh[k].city = last.city
         /\ \A f \in Facts : fresh[k].out[f] = "fail")
            => (last.status = 200 /\ last.body = EmptyMap)

(* C10 (as claimed): once a subject has been refreshed, two cities that    *)
(* normalize to the same key get the same response from a read, in every   *)
(* state and for every combination of cache and store faults.              *)
C10_SameKeySameResponse ==
    \A c1 \in Cities, c2 \in Cities, f \in ReadFaults :
        (key(c1) = key(c2) /\ key(c1) \in DOMAIN fresh)
            => GetDestination(store, cache, now, c1, f).resp
                   = GetDestination(store, cache, now, c2, f).resp

(* The rows the store holds for the subject a city denotes.                *)
EntitiesOf(st, city) == { r \in st : key(r.city) = key(city) }

(* C11 (as claimed): the store never holds two rows whose cities normalize *)
(* to the same subject.                                                    *)
C11_OneEntityPerNormalizedSubject ==
    \A r1 \in store, r2 \in store : key(r1.city) = key(r2.city) => r1 = r2

(* C12 (as claimed): a successful refresh of a subject whose last          *)
(* successful refresh fetched identical data leaves exactly one row for    *)
(* the subject, holding that data; a successful refresh of a subject that  *)
(* has no row adds exactly one row.                                        *)
C12_RefreshTwiceLeavesOneEntity ==
    [][ (last'.op = "refresh" /\ nextId' = nextId + 1) =>
            LET k    == key(last'.city)
                rows == EntitiesOf(store', last'.city)
            IN  /\ (k \in DOMAIN fresh /\ fresh[k].body = last'.body)
                        => /\ Cardinality(rows) = 1
                           /\ \A r \in rows : r.data = last'.body
                /\ EntitiesOf(store, last'.city) = {}
                        => /\ Cardinality(rows) = 1
                           /\ Cardinality(store') = Cardinality(store) + 1 ]_vars

(* The same, for two refreshes that spell the city identically: the row    *)
(* the unique index on city keeps for that spelling is one and holds the   *)
(* data.                                                                   *)
UpsertIsIdempotentPerCity ==
    [][ (last'.op = "refresh" /\ nextId' = nextId + 1) =>
            LET rows == { r \in store' : r.city = last'.city }
            IN  /\ Cardinality(rows) = 1
                /\ \A r \in rows : r.data = last'.body
                /\ (\E r \in store : r.city = last'.city) => Cardinality(store') = Cardinality(store) ]_vars

(* C14: a cache entry exists only from its write until defaultTTL has      *)
(* elapsed; while it exists a read whose lookup works returns it, and once *)
(* it is gone the read goes to the store.  The passing of time removes     *)
(* exactly the entries whose TTL has elapsed, a cache hit leaves the entry *)
(* and its expiry as they are, and an expiry only changes by a set, which  *)
(* restarts it at defaultTTL from the time of the set.                     *)
C14_CacheEntryLivesForTTL ==
    /\ [](\A k \in DOMAIN cache :
              cache[k].exp - defaultTTL <= now /\ now < cache[k].exp)
    /\ [](\A city \in Cities, f \in ReadFaults :
              LET r == GetDestination(store, cache, now, city, f)
              IN  /\ (key(city) \in DOMAIN cache /\ ~f.cget)
                        => (r.path = "cache" /\ r.resp = writeJSON(200, cache[key(city)].val))
                  /\ key(city) \notin DOMAIN cache => r.path = "store")
    /\ [][ /\ now' = now + 1 =>
                 /\ DOMAIN cache' = { k \in DOMAIN cache : cache[k].exp > now' }
                 /\ \A k \in DOMAIN cache' : cache'[k] = cache[k]
           /\ (last'.op = "read" /\ last'.path = "cache" /\ now' = now) => cache' = cache
           /\ \A k \in DOMAIN cache \cap DOMAIN cache' :
                 cache'[k].exp # cache[k].exp =>
                     (now' = now /\ cache'[k].exp = now + defaultTTL) ]_vars

(* C14 witness: the last request was a read served from the cache, and the *)
(* entry it was served from was written earlier than now and still expires *)
(* defaultTTL after its write.                                             *)
C14_Witness ==
    /\ last.op = "read"
    /\ last.path = "cache"
    /\ key(last.city) \in DOMAIN cache
    /\ cache[key(last.city)].exp < now + defaultTTL

(* C15: a read whose cache lookup fails goes on to the store and answers   *)
(* what the store query determines (500 on a query error, 404 when no row  *)
(* is returned, 200 with the row's record otherwise), which is what the    *)
(* same read answers when the cache has no entry for the city.             *)
C15_CacheFailureIsAMiss ==
    \A city \in Cities, f \in ReadFaults :
        f.cget =>
            LET r    == GetDestination(store, cache, now, city, f)
                got  == RepoGetDestination(store, city, f.rget)
                miss == GetDestination(store, CacheDelete(cache, city, FALSE).cache, now,
                                       city, [f EXCEPT !.cget = FALSE])
            IN  /\ r.path = "store"
                /\ r.resp = miss.resp
                /\ r.resp.status = IF got.err THEN 500 ELSE IF got.dest.nil THEN 404 ELSE 200
                /\ r.resp.status = 200 => r.resp.body = Marshal(got.dest.Data)

(* C15 witness: a read was answered by the store (404) although the cache  *)
(* holds an entry for its city: its lookup had failed.                     *)
C15_Witness ==
    /\ last.op = "read"
    /\ last.path = "store"
    /\ last.status = 404
    /\ key(last.city) \in DOMAIN cache

(* C16: when FetchAll returns an error the refresh answers 500 "failed to  *)
(* fetch destination data" and leaves the store and the cache exactly as   *)
(* they were, whatever the store and cache calls would have done.          *)
C16_FetchErrorTouchesNothing ==
    \A city \in Cities, param \in CountryParams, o \in SpecOutcomes,
       v \in Payloads, f \in RefreshFaults :
        FetchAll(o, v).err =>
            LET r == RefreshDestination(store, cache, now, nextId, city, param, o, v, f)
            IN  /\ r.resp = writeJSON(500, ErrBody("failed to fetch destination data"))
                /\ r.store = store
                /\ r.cache = cache
                /\ ~r.upserted

(* C16 witness: a refresh was answered with the fetch failure while the    *)
(* city has a row in the store and an entry in the cache.                  *)
C16_Witness ==
    /\ last.op = "refresh"
    /\ last.status = 500
    /\ last.body = ErrBody("failed to fetch destination data")
    /\ key(last.city) \in DOMAIN cache
    /\ \E r \in store : r.city = last.city

(* C17: when the upsert of a refresh fails the refresh answers 500 "failed *)
(* to store destination data" and the cache (and the store) are exactly as *)
(* they were.                                                              *)
C17_UpsertErrorLeavesCache ==
    \A city \in Cities, param \in CountryParams, o \in SpecOutcomes,
       v \in Payloads, f \in RefreshFaults :
        (~FetchAll(o, v).err /\ f.upsert) =>
            LET r == RefreshDestination(store, cache, now, nextId, city, param, o, v, f)
            IN  /\ r.resp = writeJSON(500, ErrBody("failed to store destination data"))
                /\ r.cache = cache
                /\ r.store = store
                /\ ~r.upserted

(* C17 witness: a refresh was answered with the store failure while the    *)
(* cache holds an entry for its city.                                      *)
C17_Witness ==
    /\ last.op = "refresh"
    /\ last.status = 500
    /\ last.body = ErrBody("failed to store destination data")
    /\ key(last.city) \in DOMAIN cache

(* C18: a refresh whose upsert succeeded answers 200 with the fetched      *)
(* record, which is the record of the row it stored, in every step, that   *)
(* is whether its cache delete and its cache set failed or not; and the    *)
(* response of a read does not depend on whether its cache set fails.      *)
C18_CacheFaultsNeverSurface ==
    /\ [][ (last'.op = "refresh" /\ nextId' = nextId + 1) =>
               /\ last'.status = 200
               /\ DOMAIN last'.body = { f \in Facts : last'.out[f] = "ok" }
               /\ \E r \in store' : r.city = last'.city /\ r.data = last'.body ]_vars
    /\ [](\A city \in Cities, f \in ReadFaults :
              GetDestination(store, cache, now, city, f).resp
                  = GetDestination(store, cache, now, city, [f EXCEPT !.cset = ~f.cset]).resp)

(* C18 witness: a refresh was answered 200 and upserted its row at the     *)
(* present time, and the cache holds no entry for the city: the cache set  *)
(* had failed.                                                             *)
C18_Witness ==
    /\ last.op = "refresh"
    /\ last.status = 200
    /\ key(last.city) \notin DOMAIN cache
    /\ \E r \in store : r.city = last.city /\ r.fetched_at = now /\ r.data = last.body

(* C19: on a cache miss, a failing store query is answered 500 "internal   *)
(* server error", never 404; a store query that does not fail is never     *)
(* answered 500, and is answered 404 when the city has no row.             *)
C19_StoreErrorIsNotNotFound ==
    \A city \in Cities, f \in ReadFaults :
        CacheGet(cache, city, f.cget).data.nil =>
            LET r == GetDestination(store, cache, now, city, f)
            IN  /\ f.rget => r.resp = writeJSON(500, ErrBody("internal server error"))
                /\ ~f.rget => r.resp.status \in {200, 404}
                /\ (~f.rget /\ ~\E row \in store : row.city = city)
                       => r.resp = writeJSON(404, ErrBody("destination not found"))

(* C19 witness: a read was answered 500 for a city whose row the store     *)
(* query would have returned.                                              *)
C19_Witness ==
    /\ last.op = "read"
    /\ last.status = 500
    /\ \E r \in store : r.city = last.city /\ "weather" \in DOMAIN r.data

(* C20: a read whose cache lookup returns an entry answers 200 with that   *)
(* entry, leaves the cache as it is, and is the same whatever the store    *)
(* holds and whether or not a store query would fail.                      *)
C20_CacheHitSkipsStore ==
    \A city \in Cities, f \in ReadFaults :
        (~f.cget /\ key(city) \in DOMAIN cache) =>
            LET r == GetDestination(store, cache, now, city, f)
            IN  /\ r.path = "cache"
                /\ r.resp = writeJSON(200, cache[key(city)].val)
                /\ r.cache = cache
                /\ r = GetDestination({}, cache, now, city, f)
                /\ r = GetDestination(store, cache, now, city, [f EXCEPT !.rget = ~f.rget])

(* C20 witness: a read was served 200 from the cache for a city for which  *)
(* the store query returns no row.                                         *)
C20_Witness ==
    /\ last.op = "read"
    /\ last.path = "cache"
    /\ last.status = 200
    /\ ~\E r \in store : r.city = last.city /\ "weather" \in DOMAIN r.data

(* C21: a read that misses the cache and finds a row in the store returns  *)
(* the row's record and issues a cache set of exactly that record under    *)
(* the subject's key (with a fresh TTL, every other entry untouched; a     *)
(* failing set leaves the cache as it was); a read that misses the cache   *)
(* and finds no row writes nothing to the cache.                           *)
C21_StoreHitRepopulatesCache ==
    \A city \in Cities, f \in ReadFaults :
        LET r    == GetDestination(store, cache, now, city, f)
            miss == CacheGet(cache, city, f.cget).data.nil
            rows == { x \in store : x.city = city /\ "weather" \in DOMAIN x.data }
        IN  (miss /\ ~f.rget) =>
                IF rows # {}
                THEN \E x \in rows :
                        /\ r.resp = writeJSON(200, x.data)
                        /\ r.cache =
                             IF f.cset THEN cache
                             ELSE [k \in DOMAIN cache \cup {key(city)} |->
                                     IF k = key(city)
                                     THEN [val |-> x.data, exp |-> now + defaultTTL]
                                     ELSE cache[k]]
                ELSE /\ r.resp.status = 404
                     /\ r.cache = cache

C21_Witness ==
    /\ last.op = "read"
    /\ last.path = "store"
    /\ last.status = 200
    /\ key(last.city) \in DOMAIN cache
    /\ cache[key(last.city)] = [val |-> last.body, exp |-> now + defaultTTL]
    /\ \E x \in store : x.city = last.city /\ x.data = last.body

(* C22: a read step leaves the store, the id sequence and the record of    *)
(* the last fetch alone, removes no cache entry and changes no entry but   *)
(* the one of its own subject, which it can only set (new TTL).            *)
C22_ReadOnlySetsItsOwnEntry ==
    [][ (last'.op = "read" /\ now' = now) =>
            /\ store' = store
            /\ nextId' = nextId
            /\ fresh' = fresh
            /\ DOMAIN cache \subseteq DOMAIN cache'
            /\ DOMAIN cache' \subseteq DOMAIN cache \cup {key(last'.city)}
            /\ \A k \in DOMAIN cache : k # key(last'.city) => cache'[k] = cache[k]
            /\ cache' # cache =>
                   /\ last'.path = "store"
                   /\ cache'[key(last'.city)] =
                          [val |-> last'.body, exp |-> now + defaultTTL] ]_vars

C22_Witness ==
    /\ last.op = "read"
    /\ last.path = "store"
    /\ last.status = 200
    /\ Cardinality(DOMAIN cache) = 2
    /\ cache[key(last.city)].val = last.body
    /\ \E k \in DOMAIN cache : k # key(last.city) /\ cache[k].val # last.body

(* C29 (as claimed): a successful upsert for a subject that has a row      *)
(* replaces that row's record, country, fetched_at and updated_at and      *)
(* keeps its id, city and created_at, adding no row; the rows of every     *)
(* other subject stay as they are.                                         *)
C29_UpsertKeepsIdAndCreatedAt ==
    [][ (last'.op = "refresh" /\ nextId' = nextId + 1) =>
            /\ EntitiesOf(store, last'.city) # {} =>
                   \E r \in EntitiesOf(store, last'.city), param \in CountryParams :
                       store' = (store \ {r}) \cup
                                { [r EXCEPT !.data = last'.body,
                                            !.country = CountryOf(last'.city, param),
                                            !.fetched_at = now, !.updated_at = now] }
            /\ \A x \in store : key(x.city) # key(last'.city) => x \in store' ]_vars

(* The same for the row of the city as the request spells it, which is the *)
(* row the conflict target of the upsert finds; without such a row the     *)
(* upsert inserts one with the next id and created_at = now.               *)
UpsertReplacesRowOfCity ==
    [][ (last'.op = "refresh" /\ nextId' = nextId + 1) =>
            \E param \in CountryParams :
                LET rows == { r \in store : r.city = last'.city }
                IN  IF rows # {}
                    THEN \E r \in rows :
                            store' = (store \ {r}) \cup
                                     { [r EXCEPT !.data = last'.body,
                                                 !.country = CountryOf(last'.city, param),
                                                 !.fetched_at = now, !.updated_at = now] }
                    ELSE store' = store \cup
                                  { [id |-> nextId, city |-> last'.city,
                                     country |-> CountryOf(last'.city, param),
                                     data |-> last'.body, fetched_at |-> now,
                                     created_at |-> now, updated_at |-> now] } ]_vars

(* The time of the last successful refresh of the subject with key k: the  *)
(* fetched_at of the row that refresh wrote.                               *)
LastRefreshAt(k) ==
    (CHOOSE r \in store : r.city = fresh[k].city).fetched_at

(* C25 (as claimed): once defaultTTL has elapsed since the last successful *)
(* refresh of a subject, every read of the subject, under any spelling and *)
(* whatever cache call fails, that returns a record returns the record     *)
(* that refresh stored.  The clock value t stands for the instants from t  *)
(* up to the next tick.                                                    *)
C25_StalenessBoundedByTTL ==
    \A city \in Cities, f \in ReadFaults :
        LET k == key(city)
            r == GetDestination(store, cache, now, city, f)
        IN  (k \in DOMAIN fresh /\ now >= LastRefreshAt(k) + defaultTTL /\ r.resp.status = 200)
                => r.resp.body = fresh[k].body

(* The same for a subject that has been refreshed under one spelling only. *)
StalenessBoundedPerCity ==
    \A city \in Cities, f \in ReadFaults :
        LET k == key(city)
            r == GetDestination(store, cache, now, city, f)
        IN  (/\ k \in DOMAIN fresh
             /\ Cardinality(EntitiesOf(store, city)) = 1
             /\ now >= LastRefreshAt(k) + defaultTTL
             /\ r.resp.status = 200)
                => r.resp.body = fresh[k].body

(* C33: a store query that does not fail returns an entity exactly when    *)
(* the city has a row whose document contains the weather key, and then    *)
(* that row's record; for a city whose row has no weather key it returns   *)
(* (nil, nil), as for a city without row.                                  *)
C33_StoreReturnsOnlyRecordsWithWeather ==
    \A city \in Cities :
        LET got  == RepoGetDestination(store, city, FALSE)
            rows == { r \in store : r.city = city }
        IN  /\ ~got.err
            /\ ~got.dest.nil <=> \E r \in rows : "weather" \in DOMAIN r.data
            /\ ~got.dest.nil =>
                   \E r \in rows : "weather" \in DOMAIN r.data
                                   /\ Marshal(got.dest.Data) = r.data
            /\ got.dest.nil => got = RepoGetDestination({}, city, FALSE)

C33_Witness ==
    /\ last.op = "read"
    /\ last.path = "store"
    /\ last.status = 404
    /\ \E r \in store : /\ r.city = last.city
                        /\ "weather" \notin DOMAIN r.data
                        /\ r.data # EmptyMap
    /\ RepoGetDestination(store, last.city, FALSE) = [dest |-> NoDest, err |-> FALSE]

----------------------------------------------------------------------------
(* Properties checked under SpecFetch.                                     *)

Returned == pc \in {"fetched", "cdel", "cset", "done"}

(* The goroutines and the handler steps of SpecFetch compute what the      *)
(* operators FetchAll and RefreshDestination, which Spec uses, compute.    *)
FetchAllAgrees ==
    Returned => fetched = FetchAll(outcome, req.v)

StepsAgree ==
    pc = "done" =>
        LET f == [upsert |-> "upsert" \in faults, cdel |-> "cdel" \in faults,
                  cset |-> "cset" \in faults]
            r == RefreshDestination({}, EmptyMap, 0, 1, req.city, req.param,
                                    outcome, req.v, f)
        IN  resp = r.resp /\ store = r.store /\ cache = r.cache

(* No panic, and the clients that failed are some but not all of the four. *)
PartialFailure ==
    /\ \A f \in Facts : outcome[f] \in {"ok", "empty", "fail"}
    /\ \E f \in Facts : outcome[f] = "fail"
    /\ \E f \in Facts : outcome[f] # "fail"

(* C3 (as claimed): when some but not all clients fail in an ordinary way, *)
(* FetchAll returns no error and the refresh answers 200.                  *)
C3_PartialFailureRefreshSucceeds ==
    (pc = "done" /\ PartialFailure) => (~fetched.err /\ resp.status = 200)

(* C3 (amended): when some but not all clients fail in an ordinary way,    *)
(* FetchAll returns no error and a record holding exactly the results of   *)
(* the clients that succeeded; the refresh then answers 200 with that      *)
(* record if the upsert succeeds, and 500 if the upsert fails.             *)
C3_PartialFailureIsNotFatal ==
    (Returned /\ PartialFailure) =>
        /\ ~fetched.err
        /\ ~fetched.data.nil
        /\ \A f \in Facts : (fetched.data.v[f] # Nil) <=> (outcome[f] # "fail")
        /\ \A f \in Facts : outcome[f] = "ok" => fetched.data.v[f] = req.v
        /\ pc = "done" =>
              IF "upsert" \in faults
              THEN resp.status = 500
              ELSE resp = writeJSON(200, Marshal(fetched.data.v))

(* C3 witness: a refresh answered 200 although the weather client failed.  *)
C3_Witness ==
    /\ pc = "done"
    /\ PartialFailure
    /\ outcome["weather"] = "fail"
    /\ resp.status = 200
    /\ "weather" \notin DOMAIN resp.body
    /\ "country" \in DOMAIN resp.body

(* C4: when all four clients fail and the upsert succeeds, FetchAll        *)
(* returns a non-nil record with every fact absent and no error, the       *)
(* refresh answers 200 with the empty document and stores it.              *)
C4_AllFailStillSucceeds ==
    /\ (Returned /\ \A f \in Facts : outcome[f] = "fail")
           => (~fetched.err /\ ~fetched.data.nil /\ fetched.data.v = ZeroData)
    /\ (pc = "done" /\ "upsert" \notin faults /\ \A f \in Facts : outcome[f] = "fail")
           => /\ resp = writeJSON(200, EmptyMap)
              /\ \E r \in store : r.city = req.city /\ r.data = EmptyMap

(* C4 witness: a refresh with all four clients failing answered 200.       *)
C4_Witness ==
    /\ pc = "done"
    /\ \A f \in Facts : outcome[f] = "fail"
    /\ resp.status = 200
    /\ store # {}

(* C7 (as claimed): a panic in one fetch goroutine leaves the group        *)
(* context of the goroutines still running un-cancelled (unless the caller *)
(* cancelled), and the results of the other three are still collected.     *)
C7_PanicDoesNotCancelSiblings ==
    (~ctx /\ Cardinality({ f \in Facts : outcome[f] = "panic" }) = 1) =>
        /\ (\E f \in Facts : task[f] = "running") => ~gCtx
        /\ Returned =>
              /\ ~fetched.data.nil
              /\ \A f \in Facts : outcome[f] = "ok" => fetched.data.v[f] = req.v

(* C8 (as claimed): FetchAll returns an error only if every one of the     *)
(* four goroutines panicked; with one, two or three panics it returns a    *)
(* nil error and a record without those facts.                             *)
C8_ErrorOnlyIfAllPanic ==
    Returned => (fetched.err <=> \A f \in Facts : outcome[f] = "panic")

(* C9 (as claimed): when the caller's context is cancelled while fetches   *)
(* are in flight, the group context is cancelled too, no fetch that was    *)
(* unfinished then delivers a result, and FetchAll returns a non-nil       *)
(* record and a nil error.                                                 *)
C9_CancelledFetchAllReturnsRecord ==
    (ctx /\ cut # {}) =>
        /\ gCtx
        /\ \A f \in cut : slot[f] = Nil
        /\ Returned => (~fetched.err /\ ~fetched.data.nil)

(* C30: the countries client is called with, and the row is stored with,   *)
(* the city of the request when the country parameter is empty or missing  *)
(* and the parameter when it is given; the three other clients are called  *)
(* with the city.                                                          *)
C30_CountryDefaultsToCity ==
    LET expected == IF req.param = <<>> THEN req.city ELSE req.param
    IN  /\ arg["country"].called => arg["country"].with = expected
        /\ \A f \in Facts \ {"country"} : arg[f].called => arg[f].with = req.city
        /\ \A r \in store : r.city = req.city /\ r.country = expected
        /\ (pc = "done" /\ resp.status = 200) =>
               /\ \A f \in Facts : arg[f].called
               /\ \E r \in store : r.country = expected

C30_Witness ==
    /\ pc = "done"
    /\ resp.status = 200
    /\ req.param # <<>>
    /\ req.param # req.city
    /\ arg["country"] = [called |-> TRUE, with |-> req.param]
    /\ \E r \in store : r.city = req.city /\ r.country = req.param

(* The same request without the parameter.                                 *)
C30_WitnessDefault ==
    /\ pc = "done"
    /\ resp.status = 200
    /\ req.param = <<>>
    /\ arg["country"] = [called |-> TRUE, with |-> req.city]
    /\ \E r \in store : r.country = req.city

(* C34: in a refresh the store changes only in the step after FetchAll has *)
(* returned without error, all four goroutines done; the cache changes     *)
(* only in the two steps after the upsert has succeeded; the cache delete  *)
(* follows the successful upsert and the cache set follows the cache       *)
(* delete whether or not the delete failed; the 200 follows the cache set. *)
C34_RefreshStepsAreOrdered ==
    /\ []((pc \in {"cdel", "cset"} \/ (pc = "done" /\ resp.status = 200)) =>
              /\ \A f \in Facts : task[f] = "done"
              /\ ~fetched.err
              /\ \E r \in store : r.city = req.city /\ r.data = Marshal(fetched.data.v))
    /\ [][ /\ store' # store =>
                 (pc = "fetched" /\ ~fetched.err /\ pc' = "cdel" /\ cache' = cache)
           /\ cache' # cache => (pc \in {"cdel", "cset"} /\ store' = store)
           /\ (pc' = "cdel" /\ pc # "cdel") => (pc = "fetched" /\ store' # store)
           /\ pc = "cdel" => pc' = "cset"
           /\ (pc' = "cset" /\ pc # "cset") => pc = "cdel"
           /\ pc = "cset" => (pc' = "done" /\ resp'.status = 200)
           /\ (resp'.status = 200 /\ resp.status # 200) => pc = "cset" ]_vars

C34_Witness ==
    /\ pc = "done"
    /\ resp.status = 200
    /\ faults = {"cdel"}
    /\ key(req.city) \in DOMAIN cache
    /\ cache[key(req.city)].val = resp.body
    /\ \E r \in store : r.data = resp.body

(* C38: FetchAll has returned only when all four goroutines have; what it  *)
(* returns is set in one step, the one in which g.Wait returns with all    *)
(* four done, and never again; and under fair scheduling, every Fetch      *)
(* ending by itself or on cancellation, FetchAll does return.              *)
C38_FetchAllIsAFullJoin ==
    /\ [](Returned => \A f \in Facts : task[f] = "done")
    /\ [][ /\ fetched' # fetched =>
                 (pc = "wait" /\ pc' = "fetched" /\ \A f \in Facts : task[f] = "done")
           /\ Returned => (Returned' /\ fetched' = fetched)
           /\ (Returned' /\ ~Returned) => fetched' = WaitResult(gErr, slot) ]_vars
    /\ <>Returned

(* FetchAll has returned although the caller cancelled while goroutines    *)
(* were running and one fetch had failed before.                           *)
C38_Witness ==
    /\ Returned
    /\ ctx
    /\ cut # {}
    /\ cut # Facts
    /\ \A f \in Facts : task[f] = "done"
    /\ \E f \in Facts \ cut : outcome[f] = "fail"

(* C39: the four goroutines of FetchAll share no written variable: a step  *)
(* changes at most one result variable, the one of the goroutine that ends *)
(* in that step with a successful Fetch, and that variable was absent      *)
(* before, so it is written at most once; the variable of a goroutine that *)
(* has not ended, or whose Fetch failed or panicked, is absent; and the    *)
(* record is built from the four variables in the step in which g.Wait     *)
(* returns, with all four goroutines done, after which they never change.  *)
C39_TasksWriteOnlyTheirOwnSlot ==
    /\ [](\A f \in Facts :
            /\ task[f] # "done" => slot[f] = Nil
            /\ (task[f] = "done" /\ outcome[f] \in {"fail", "panic"}) => slot[f] = Nil
            /\ (task[f] = "done" /\ outcome[f] \in {"ok", "empty"}) =>
                   slot[f] = SlotValue(outcome[f], req.v))
    /\ [][ /\ \A f \in Facts :
                slot'[f] # slot[f] =>
                    /\ task[f] = "running" /\ task'[f] = "done"
                    /\ slot[f] = Nil
                    /\ outcome'[f] \in {"ok", "empty"}
                    /\ \A g \in Facts \ {f} : slot'[g] = slot[g] /\ task'[g] = task[g]
           /\ fetched' # fetched =>
                    /\ \A f \in Facts : task[f] = "done"
                    /\ slot' = slot
                    /\ ~fetched'.err => fetched'.data = Ptr(slot)
           /\ Returned => slot' = slot ]_vars

(* FetchAll has built its record from the four variables: the weather     *)
(* fetch failed and left its variable absent, the country fetch wrote its  *)
(* value and the points-of-interest fetch wrote an empty list.             *)
C39_Witness ==
    /\ Returned
    /\ ~fetched.err
    /\ outcome["weather"] = "fail"
    /\ outcome["country"] = "ok"
    /\ outcome["points_of_interest"] = "empty"
    /\ fetched.data = Ptr(slot)
    /\ slot["weather"] = Nil
    /\ slot["country"] = req.v
    /\ slot["points_of_interest"] = Empty

----------------------------------------------------------------------------
(* Properties checked under SpecRace.                                      *)

RaceDone == \A i \in Procs : rq[i].pc = "done"

(* C13 (as claimed): when two concurrent refreshes of one subject have     *)
(* both completed and both upserts were applied, both were answered 200    *)
(* and the store holds exactly one row for the subject, whose record and   *)
(* country are, whole, those of the request whose upsert was applied last. *)
C13_ConcurrentRefreshLastWriteWins ==
    (RaceDone /\ key(rq[1].city) = key(rq[2].city) /\ Len(applied) = 2) =>
        LET w    == applied[2]
            rows == EntitiesOf(store, rq[w].city)
        IN  /\ \A i \in Procs : rq[i].resp.status = 200
            /\ Cardinality(rows) = 1
            /\ \A r \in rows : /\ r.data = Marshal(rq[w].data.v)
                               /\ r.country = CountryOf(rq[w].city, rq[w].param)

(* The same, for two requests that spell the city identically: one row    *)
(* for the city and none added besides, holding the record and country of  *)
(* the upsert applied last.                                                *)
LastUpsertWinsPerCity ==
    (RaceDone /\ rq[1].city = rq[2].city /\ Len(applied) = 2) =>
        LET w == applied[2]
            rows == { r \in store : r.city = rq[w].city }
        IN  /\ \A i \in Procs : rq[i].resp.status = 200
            /\ Cardinality(rows) = 1
            /\ { r.city : r \in store } = { r.city : r \in pre.store } \cup {rq[w].city}
            /\ \A r \in rows : /\ r.data = Marshal(rq[w].data.v)
                               /\ r.country = CountryOf(rq[w].city, rq[w].param)

(* The requests whose upsert has been applied.                             *)
Applied == { applied[n] : n \in 1..Len(applied) }

(* The documents of the records of the subject with key k that exist: the  *)
(* record each refresh of the subject has fetched, and the record of the   *)
(* row the subject had when the requests arrived.                          *)
Produced(k) ==
    { Marshal(rq[i].data.v) :
        i \in { j \in Procs : /\ rq[j].kind = "refresh"
                              /\ ~rq[j].data.nil
                              /\ key(rq[j].city) = k } }
    \cup { r.data : r \in { x \in pre.store : key(x.city) = k } }

(* C23: under every interleaving of the calls of two requests, each a read *)
(* or a refresh, every cache entry is, whole, the document of one record   *)
(* of its subject: one fetched by a refresh, or the one stored before; and *)
(* an entry written by a read is the record the store held for the         *)
(* subject when that read queried it.                                      *)
C23_CacheEntryIsOneWholeRecord ==
    /\ \A k \in DOMAIN cache : cache[k].val \in Produced(k)
    /\ \A i \in Procs :
          (rq[i].kind = "read" /\ ~rq[i].data.nil) =>
              Marshal(rq[i].data.v) \in Produced(key(rq[i].city))

(* A read that queried the store before the refresh upserted and wrote the *)
(* cache after the refresh did: the entry is the earlier record, whole.    *)
C23_Witness ==
    /\ RaceDone
    /\ \E i \in Procs, j \in Procs :
          /\ rq[i].kind = "read"
          /\ rq[j].kind = "refresh"
          /\ rq[i].city = rq[j].city
          /\ j \in Applied
          /\ ~rq[i].data.nil
          /\ key(rq[i].city) \in DOMAIN cache
          /\ cache[key(rq[i].city)].val = PriorRow.data
          /\ rq[i].resp = writeJSON(200, PriorRow.data)
          /\ \E r \in store : r.city = rq[j].city /\ r.data = Marshal(rq[j].data.v)
                                                  /\ r.data # PriorRow.data

(* What a read of the city whose store query works returns when it is     *)
(* served before the requests arrive: the record, from the cache or from   *)
(* the store, or 404 when there is none.                                   *)
PreOutcome(city) ==
    { GetDestination(pre.store, pre.cache, 0, city, f).resp :
        f \in { g \in ReadFaults : ~g.rget } }

(* C24 (as claimed): a read that has completed, without a failure of its   *)
(* store query, while a refresh of the same subject is or was in flight    *)
(* has returned the outcome from before the refresh or, when the upsert of *)
(* the refresh has been applied, the record the refresh fetched.           *)
C24_ConcurrentReadSeesPreOrPost ==
    \A i \in Procs, j \in Procs :
        (/\ rq[i].kind = "read"
         /\ rq[j].kind = "refresh"
         /\ key(rq[i].city) = key(rq[j].city)
         /\ rq[i].pc = "done"
         /\ rq[i].resp.status # 500)
            => rq[i].resp \in
                   PreOutcome(rq[i].city)
                   \cup (IF j \in Applied
                         THEN { writeJSON(200, Marshal(rq[j].data.v)) } ELSE {})

(* The same when the record the refresh stores contains weather.           *)
ReadSeesPreOrPostWithWeather ==
    \A i \in Procs, j \in Procs :
        (/\ rq[i].kind = "read"
         /\ rq[j].kind = "refresh"
         /\ key(rq[i].city) = key(rq[j].city)
         /\ j \in Applied => "weather" \in DOMAIN Marshal(rq[j].data.v)
         /\ rq[i].pc = "done"
         /\ rq[i].resp.status # 500)
            => rq[i].resp \in
                   PreOutcome(rq[i].city)
                   \cup (IF j \in Applied
                         THEN { writeJSON(200, Marshal(rq[j].data.v)) } ELSE {})

(* The documents the store has held so far for the subjects with key k:    *)
(* those of the rows it had when the requests arrived and those of the     *)
(* upserts applied since.                                                  *)
Held(k) ==
    { r.data : r \in { x \in pre.store : key(x.city) = k } }
    \cup { Marshal(rq[j].data.v) : j \in { a \in Applied : key(rq[a].city) = k } }

(* C36: the cache never runs ahead of the store: every row of the store is *)
(* one it has held, every cache entry is a document the store has held for *)
(* a subject with the entry's key, a refresh is at its cache calls only    *)
(* after its own upsert was applied, and a read is at its cache set only   *)
(* with a record the store has held.                                       *)
C36_CacheNeverAheadOfStore ==
    /\ \A r \in store : r.data \in Held(key(r.city))
    /\ \A k \in DOMAIN cache : cache[k].val \in Held(k)
    /\ \A i \in Procs :
          /\ rq[i].pc \in {"cdel", "cset"} =>
                 (i \in Applied /\ Marshal(rq[i].data.v) \in Held(key(rq[i].city)))
          /\ rq[i].pc = "rcset" => Marshal(rq[i].data.v) \in Held(key(rq[i].city))

(* Two refreshes of one subject: the upsert of the first failed, the one   *)
(* of the second was applied, and the cache entry is the second's record.  *)
C36_Witness ==
    /\ RaceDone
    /\ pre.store = {}
    /\ \E i \in Procs, j \in Procs :
          /\ rq[i].kind = "refresh" /\ rq[j].kind = "refresh"
          /\ key(rq[i].city) = key(rq[j].city)
          /\ Applied = {j}
          /\ ~rq[i].data.nil
          /\ rq[i].resp.status = 500
          /\ Marshal(rq[i].data.v) # Marshal(rq[j].data.v)
          /\ key(rq[j].city) \in DOMAIN cache
          /\ cache[key(rq[j].city)].val = Marshal(rq[j].data.v)

(* Both requests have completed and none of their store and cache calls    *)
(* has failed.                                                             *)
Quiescent == RaceDone /\ \A i \in Procs : ~rq[i].faulted

(* The cache entry under key k is the record of a row the store holds now  *)
(* for a subject with that key.                                            *)
EntryIsCurrent(k) == \E r \in store : key(r.city) = k /\ r.data = cache[k].val

(* The requests on the subject with key k, and the refreshes among them.   *)
RequestsOf(k) == { i \in Procs : key(rq[i].city) = k }
RefreshesOf(k) == { i \in RequestsOf(k) : rq[i].kind = "refresh" }

(* C37 (as claimed): without faults and without expiry, once the requests  *)
(* have completed, every cache entry is the record the store holds now for *)
(* the entry's subject.                                                    *)
C37_QuiescentConsistency ==
    Quiescent => \A k \in DOMAIN cache : EntryIsCurrent(k)

(* C37 (amended): without faults and without expiry, once the requests     *)
(* have completed, every cache entry is a record the store has held for    *)
(* the entry's subject, on arrival of the requests or since; it is the     *)
(* record the store holds now when a single request, or reads only, have   *)
(* been served for the subject, and otherwise it is the current record or  *)
(* the one a refresh of the subject replaced while the requests            *)
(* overlapped.                                                             *)
C37_QuiescentEntryIsCurrentOrReplaced ==
    Quiescent =>
        \A k \in DOMAIN cache :
            /\ cache[k].val \in Held(k)
            /\ (Cardinality(RequestsOf(k)) <= 1 \/ RefreshesOf(k) = {}) => EntryIsCurrent(k)
            /\ ~EntryIsCurrent(k) =>
                   /\ RefreshesOf(k) \cap Applied # {}
                   /\ Cardinality(RequestsOf(k)) = 2

(* A read and a refresh of one city overlapped without any fault: the read *)
(* was served the earlier record from the store and repopulated the cache  *)
(* before the refresh set it, so the entry is the current record.          *)
C37_Witness ==
    /\ Quiescent
    /\ pre.store = {PriorRow}
    /\ pre.cache = EmptyMap
    /\ \E i \in Procs, j \in Procs :
          /\ rq[i].kind = "read"
          /\ rq[j].kind = "refresh"
          /\ rq[i].city = rq[j].city
          /\ j \in Applied
          /\ rq[i].resp = writeJSON(200, PriorRow.data)
          /\ rq[j].resp.body # PriorRow.data
          /\ key(rq[j].city) \in DOMAIN cache
          /\ cache[key(rq[j].city)].val = rq[j].resp.body
          /\ EntryIsCurrent(key(rq[j].city))

----------------------------------------------------------------------------
(* Properties checked under SpecCache.                                     *)

(* The facts of a record that are present: set pointers and filled slices. *)
Present(d) == { f \in Facts : d[f] # Nil /\ d[f] # Empty }

(* What Set(city, d) without error makes of the cache c at time t.         *)
Replaced(c, city, d, t) ==
    [k \in DOMAIN c \cup {key(city)} |->
        IF k = key(city) THEN [val |-> Marshal(d), exp |-> t + defaultTTL] ELSE c[k]]

(* C26: in every state of the cache, Set returns no error and replaces the *)
(* subject's entry by the record; for a nil record and for a record with   *)
(* every fact absent it changes nothing; no cache entry is the document of *)
(* a record without facts.                                                 *)
C26_SetOfNothingIsNoOp ==
    /\ \A k \in DOMAIN cache : cache[k].val # EmptyMap
    /\ \A city \in Cities :
          CacheSet(cache, city, NilPtr, FALSE, now) = [cache |-> cache, err |-> FALSE]
    /\ \A city \in Cities, d \in Records :
          LET s == CacheSet(cache, city, Ptr(d), FALSE, now)
          IN  /\ ~s.err
              /\ IF Present(d) = {}
                 THEN s.cache = cache
                 ELSE s.cache = Replaced(cache, city, d, now)

(* The part of C26 that the code keeps: a nil record is a no-op without    *)
(* error, and a non-nil record replaces the subject's entry whatever it    *)
(* was.                                                                    *)
SetReplacesAndNilIsNoOp ==
    /\ \A city \in Cities :
          CacheSet(cache, city, NilPtr, FALSE, now) = [cache |-> cache, err |-> FALSE]
    /\ \A city \in Cities, d \in Records :
          CacheSet(cache, city, Ptr(d), FALSE, now) =
              [cache |-> Replaced(cache, city, d, now), err |-> FALSE]

(* C27: in every state of the cache, a Delete returns no error and removes *)
(* the subject's entry and no other, so that on a subject without entry it *)
(* changes nothing; a second Delete changes nothing more; afterwards a Get *)
(* under any spelling of the subject is a miss, and a hit again once a     *)
(* record has been set.                                                    *)
C27_DeleteIsIdempotent ==
    \A city \in Cities :
        LET d1 == CacheDelete(cache, city, FALSE)
            d2 == CacheDelete(d1.cache, city, FALSE)
        IN  /\ ~d1.err /\ ~d2.err
            /\ d2.cache = d1.cache
            /\ key(city) \notin DOMAIN cache => d1.cache = cache
            /\ \A k \in DOMAIN cache \ {key(city)} :
                   k \in DOMAIN d1.cache /\ d1.cache[k] = cache[k]
            /\ \A c2 \in Cities :
                   key(c2) = key(city) =>
                       /\ CacheGet(d1.cache, c2, FALSE) = [data |-> NilPtr, err |-> FALSE]
                       /\ \A d \in Records :
                              ~CacheGet(CacheSet(d1.cache, city, Ptr(d), FALSE, now).cache,
                                        c2, FALSE).data.nil

C27_Witness ==
    /\ last.op = "delete"
    /\ ~last.err
    /\ last.city = <<" ", "P">>
    /\ key(last.city) \notin DOMAIN cache
    /\ cache # EmptyMap
    /\ now > 0

(* C28: in every state of the cache, after Set(S, R) a Get under any       *)
(* spelling of S, at any time before the TTL has elapsed, returns a record *)
(* with the present facts of R and their values; the stored document has a *)
(* key for every present fact and for no other; a Get of a subject without *)
(* entry returns (nil, nil).                                               *)
C28_CacheRoundTrip ==
    \A city \in Cities :
        /\ key(city) \notin DOMAIN cache =>
               CacheGet(cache, city, FALSE) = [data |-> NilPtr, err |-> FALSE]
        /\ \A d \in Records :
               LET s == CacheSet(cache, city, Ptr(d), FALSE, now)
               IN  /\ ~s.err
                   /\ DOMAIN s.cache[key(city)].val = Present(d)
                   /\ \A t \in now .. (now + defaultTTL - 1), c2 \in Cities :
                          key(c2) = key(city) =>
                              LET g == CacheGet(Expire(s.cache, t), c2, FALSE)
                              IN  /\ ~g.err
                                  /\ ~g.data.nil
                                  /\ Present(g.data.v) = Present(d)
                                  /\ \A f \in Present(d) : g.data.v[f] = d[f]

C28_Witness ==
    /\ last.op = "get"
    /\ ~last.err
    /\ ~last.data.nil
    /\ last.city = <<" ", "P">>
    /\ Present(last.data.v) # {}
    /\ Present(last.data.v) # Facts
    /\ cache[key(last.city)] = [val |-> Marshal(last.data.v), exp |-> now + 1]

----------------------------------------------------------------------------
(* Properties checked under SpecHttp.                                      *)

(* The Authorization header is missing, lacks the "Bearer " prefix, or     *)
(* carries after the prefix something else than the token.                 *)
BadCredential(auth) ==
    \/ auth = <<>>
    \/ ~HasPrefix(auth, Bearer)
    \/ SubSeq(auth, Len(Bearer) + 1, Len(auth)) # Token

(* The request was answered without any access to the cache, the store or  *)
(* the sources.                                                            *)
NoAccess ==
    /\ last.touched = {}
    /\ last.pings = NoPings

(* C31 (as claimed): a request to a destination route with a missing,      *)
(* unprefixed or wrong credential is answered 401 "unauthorized", reaches  *)
(* no handler and changes neither store nor cache; a request to the health *)
(* route is served by the health check whatever its credential.            *)
C31_UnauthorizedIsRejected ==
    /\ []((last.route \in {"read", "refresh"} /\ BadCredential(last.auth)) =>
              (last.resp = writeJSON(401, ErrBody("unauthorized")) /\ NoAccess))
    /\ [](last.route = "health" =>
              (last.resp.status \in {200, 503} /\ last.pings.sent # <<>>))
    /\ [][(last'.route \in {"read", "refresh"} /\ BadCredential(last'.auth)) =>
              UNCHANGED <<store, cache, nextId>>]_vars

(* C31 (amended): a request to a destination route with a missing,         *)
(* unprefixed or wrong credential reaches no handler and changes neither   *)
(* store nor cache; it is answered 401 "unauthorized" unless the rate      *)
(* limiter has refused it before with 429.  A request to the health route  *)
(* that the rate limiter lets through is served by the health check        *)
(* whatever its credential.  Only the exact credential reaches a           *)
(* destination handler.                                                    *)
C31_UnauthorizedReachesNoHandler ==
    /\ []((last.route \in {"read", "refresh"} /\ BadCredential(last.auth)) =>
              /\ NoAccess
              /\ last.resp = IF last.limited
                             THEN writeJSON(429, [text |-> "Too Many Requests"])
                             ELSE writeJSON(401, ErrBody("unauthorized")))
    /\ []((last.route = "health" /\ ~last.limited) =>
              (last.resp.status \in {200, 503} /\ last.pings.sent # <<>>))
    /\ []((last.route \in {"read", "refresh"} /\ last.touched # {}) =>
              last.auth = Bearer \o Token)
    /\ [][(last'.route \in {"read", "refresh"} /\ BadCredential(last'.auth)) =>
              UNCHANGED <<store, cache, nextId>>]_vars

(* The service holds a row; a refresh presenting the bare token, without   *)
(* the prefix, was answered 401 and touched nothing.                       *)
C31_Witness ==
    /\ last.route = "refresh"
    /\ last.auth = Token
    /\ ~last.limited
    /\ last.resp.status = 401
    /\ last.touched = {}
    /\ store # {}
    /\ cache # EmptyMap

(* C32: the health check pings the store, then the cache, on every call,   *)
(* whatever the first ping returned; it answers 200 with status "ok" when  *)
(* both pings succeeded and 503 with status "degraded" otherwise; the db   *)
(* field is "error" exactly when the store ping failed and the redis field *)
(* exactly when the cache ping failed.                                     *)
C32_HealthReportsBothPings ==
    /\ \A dbErr \in BOOLEAN, redisErr \in BOOLEAN :
          LET h == HealthHandlerFunc(dbErr, redisErr)
          IN  /\ h.pings = <<"db", "redis">>
              /\ h.resp.status = 200 <=> (~dbErr /\ ~redisErr)
              /\ h.resp.status # 200 => h.resp.status = 503
              /\ h.resp.body.status = (IF h.resp.status = 200 THEN "ok" ELSE "degraded")
              /\ h.resp.body.db = "error" <=> dbErr
              /\ h.resp.body.db # "error" => h.resp.body.db = "ok"
              /\ h.resp.body.redis = "error" <=> redisErr
              /\ h.resp.body.redis # "error" => h.resp.body.redis = "ok"
    /\ (last.route = "health" /\ ~last.limited) =>
          /\ last.pings.sent = <<"db", "redis">>
          /\ last.resp.status = (IF last.pings.dbErr \/ last.pings.redisErr THEN 503 ELSE 200)
          /\ last.resp.body.status = (IF last.resp.status = 200 THEN "ok" ELSE "degraded")
          /\ last.resp.body.db = (IF last.pings.dbErr THEN "error" ELSE "ok")
          /\ last.resp.body.redis = (IF last.pings.redisErr THEN "error" ELSE "ok")
          /\ last.touched = {}

(* A health check without credential whose store ping failed: the cache    *)
(* was pinged all the same, succeeded, and the answer is 503 "degraded".   *)
C32_Witness ==
    /\ last.route = "health"
    /\ last.auth = <<>>
    /\ last.pings = [sent |-> <<"db", "redis">>, dbErr |-> TRUE, redisErr |-> FALSE]
    /\ last.resp = writeJSON(503, [status |-> "degraded", db |-> "error", redis |-> "ok"])

----------------------------------------------------------------------------
(* Properties checked under SpecMigrate.                                   *)

IsPrefix(p, s) == Len(p) <= Len(s) /\ p = SubSeq(s, 1, Len(p))

(* C35: RunMigrations keeps the .sql files of the directory, in strictly   *)
(* increasing byte order of their names; it begins one transaction per     *)
(* file, in that order, and begins the next only after the commit of the   *)
(* one before; the committed files are at every moment a prefix of the     *)
(* sorted list; at the first failure it returns: the file of a failed exec *)
(* is rolled back and not committed, the files before it stay committed    *)
(* and no file after it is ever begun; without failure all are committed.  *)
C35_MigrationsCommitInOrder ==
    /\ [](mig.step \notin {"readdir"} /\ mig.err # "reading migrations dir" =>
             /\ { mig.files[k] : k \in 1..Len(mig.files) } =
                    { Join(e.name) : e \in { x \in mig.entries :
                                               ~x.isDir /\ HasSuffix(x.name, SqlSuffix) } }
             /\ \A k \in 1..(Len(mig.files) - 1) : Less(mig.files[k], mig.files[k + 1]))
    /\ [](/\ IsPrefix(mig.committed, mig.files)
          /\ IsPrefix(mig.begun, mig.files)
          /\ IsPrefix(mig.committed, mig.begun)
          /\ Len(mig.begun) <= Len(mig.committed) + 1)
    /\ [](mig.tx # <<>> =>
             /\ mig.tx = mig.files[mig.i]
             /\ mig.begun = Append(mig.committed, mig.tx))
    /\ [](mig.err # "" =>
             /\ mig.step = "done"
             /\ IF mig.err = "reading migrations dir"
                THEN mig.begun = <<>>
                ELSE /\ IsPrefix(mig.begun, SubSeq(mig.files, 1, mig.i))
                     /\ IsPrefix(SubSeq(mig.files, 1, mig.i - 1), mig.committed))
    /\ [](IF mig.err = "executing SQL"
          THEN /\ mig.rolledBack = <<mig.files[mig.i]>>
               /\ mig.committed = SubSeq(mig.files, 1, mig.i - 1)
          ELSE mig.rolledBack = <<>>)
    /\ []((mig.step = "done" /\ mig.err = "") => mig.committed = mig.files)
    /\ [][ /\ mig.step = "done" => mig' = mig
           /\ IsPrefix(mig.committed, mig'.committed)
           /\ IsPrefix(mig.begun, mig'.begun) ]_vars

(* Three migrations among other entries: "1.sql" is committed, the exec of *)
(* "10.sql", which sorts before "2.sql", fails and is rolled back, and     *)
(* "2.sql" is never begun.                                                 *)
C35_Witness ==
    /\ mig.step = "done"
    /\ mig.err = "executing SQL"
    /\ mig.entries = DirPool
    /\ mig.files = << Join(<<"1">> \o SqlSuffix), Join(<<"1", "0">> \o SqlSuffix),
                      Join(<<"2">> \o SqlSuffix) >>
    /\ mig.committed = << Join(<<"1">> \o SqlSuffix) >>
    /\ mig.rolledBack = << Join(<<"1", "0">> \o SqlSuffix) >>
    /\ mig.begun = SubSeq(mig.files, 1, 2)

====
